---- MODULE Spec2Model ----
(***************************************************************************)
(* HotDogCCS: the inventory ledger (inventory_manager.py), the data store  *)
(* (data_manager.py) and the sales day simulation (simulation.py).         *)
(*                                                                         *)
(* Python dicts are insertion ordered.  A dict whose iteration order is    *)
(* observable (a requirements map, a Counter) is a sequence of             *)
(* <<key, value>> pairs with distinct keys; a dict that is only looked up  *)
(* by key (ingredients, hotdogs, inventory) is a function.                 *)
(***************************************************************************)
EXTENDS Integers, Sequences, FiniteSets, TLC

(***************************************************************************)
(* Bounds of the model.                                                    *)
(***************************************************************************)
\* largest quantity of the ledger on its own, largest |amount| and largest
\* required count handed to its operations
MaxQty == 1
\* longest requirements map handed to the ledger operations
MaxReqLen == 2
\* stock of an ingredient that is in stock when a simulated day starts
MaxStock == 2
\* cut of random.randint(0, 200), the number of clients of a day
MaxClients == 2
\* cut of random.randint(0, 5), the number of hot dogs of one client
MaxHotdogs == 2
\* number of distinct readings of the clock
MaxDate == 2
\* number of JSON files the remote source lists
MaxRemoteFiles == 2
\* number of sales days an earlier session has left in the history
MaxDays == 3
(***************************************************************************)
(* Python values.                                                          *)
(***************************************************************************)
None == "None"

\* truth value of an Optional[str]: None and '' are falsy
Truthy(x) == x # None /\ x # ""

max(a, b) == IF a >= b THEN a ELSE b

\* keys of an insertion ordered dict
DictKeys(d) == {d[i][1] : i \in DOMAIN d}

\* d.get(k, default)
DictGet(d, k, default) ==
    IF k \in DictKeys(d)
    THEN d[CHOOSE i \in DOMAIN d : d[i][1] = k][2]
    ELSE default

\* Counter: c[k] += n (a missing key counts 0 and is inserted at the end)
CounterAdd(c, k, n) ==
    IF k \in DictKeys(c)
    THEN [i \in DOMAIN c |-> IF c[i][1] = k THEN <<k, c[i][2] + n>> ELSE c[i]]
    ELSE Append(c, <<k, n>>)

\* sum(c.values())
RECURSIVE CounterTotal(_)
CounterTotal(c) ==
    IF c = <<>> THEN 0 ELSE c[1][2] + CounterTotal(Tail(c))

\* append without the test "not in"
AppendAlways(lst, x) == Append(lst, x)

\* lst.append(x) guarded by `if x not in lst`
AppendUnique(lst, x) ==
    IF \E i \in DOMAIN lst : lst[i] = x THEN lst ELSE Append(lst, x)

(***************************************************************************)
(* The ingredients and hot dogs the model draws its stores from.           *)
(***************************************************************************)
Acompanante == "Acompanante"

IngredientIds == {"b1", "s1", "t1", "a1"}

AllIngredients ==
    [id \in IngredientIds |->
        CASE id = "b1" -> [name |-> "bread",   category |-> "Pan"]
          [] id = "s1" -> [name |-> "sausage", category |-> "Salchicha"]
          [] id = "t1" -> [name |-> "onion",   category |-> "Topping"]
          [] id = "a1" -> [name |-> "fries",   category |-> Acompanante]]

HotDogIds == {"h1", "h2", "h3"}

\* h1 and h3 share a name; h2 repeats a topping and bundles a side
AllHotDogs ==
    [id \in HotDogIds |->
        CASE id = "h1" -> [name |-> "simple", pan_id |-> "b1",
                           salchicha_id |-> "s1", topping_ids |-> <<>>,
                           salsa_ids |-> <<>>, acompanante_id |-> None]
          [] id = "h2" -> [name |-> "combo", pan_id |-> "b1",
                           salchicha_id |-> "s1", topping_ids |-> <<"t1", "t1">>,
                           salsa_ids |-> <<>>, acompanante_id |-> "a1"]
          [] id = "h3" -> [name |-> "simple", pan_id |-> "b1",
                           salchicha_id |-> "s1", topping_ids |-> <<"t1">>,
                           salsa_ids |-> <<>>, acompanante_id |-> None]]

Restrict(f, S) == [x \in S |-> f[x]]

VARIABLES
    \* DataManager.data
    ingredients, hotdogs, inventory, sales_history,
    \* the local JSON file, and the condition of the disk it is on
    local_file, disk,
    \* simulate_day: position and local variables
    pc, num_clients, client_num, order,
    clients_changed_opinion, clients_could_not_buy, clients_served,
    total_hotdogs_sold, hotdog_sales_counter,
    hotdogs_causing_loss, ingredients_causing_loss, total_sides_sold,
    \* the last operation called, its arguments and what it returned
    op, args, ret,
    \* what is followed next to a run of simulate_day: a second run, or the
    \* account of what the day started with and what its served clients took
    twin

dataVars == <<ingredients, hotdogs, inventory, sales_history>>
fileVars == <<local_file, disk>>
simVars == <<pc, num_clients, client_num, order,
             clients_changed_opinion, clients_could_not_buy, clients_served,
             total_hotdogs_sold, hotdog_sales_counter,
             hotdogs_causing_loss, ingredients_causing_loss, total_sides_sold>>
callVars == <<op, args, ret>>
vars == <<dataVars, fileVars, simVars, callVars, twin>>

(***************************************************************************)
(* DataManager: the local file.                                            *)
(***************************************************************************)
\* what save_to_local writes
save_data(ings, hds, inv, hist) ==
    [ingredients |-> ings, hotdogs |-> hds, inventory |-> inv,
     sales_history |-> hist]

EmptyData ==
    save_data(Restrict(AllIngredients, {}), Restrict(AllHotDogs, {}),
              [k \in {} |-> 0], <<>>)

\* the file does not exist / is not parseable JSON / holds a saved document
NoFile == [state |-> "absent", data |-> EmptyData]
Corrupt == [state |-> "corrupt", data |-> EmptyData]
FileHolding(data) == [state |-> "json", data |-> data]

\* The disk is writable, or open() raises (the file stays as it is), or the
\* write raises after open() has truncated the file.  The model follows the
\* sessions in which the disk stays in one of these conditions.
DiskConditions == {"writable", "denied", "full"}

\* save_to_local: the file after the call; every exception is caught
save_to_local(file, dsk, data) ==
    CASE dsk = "writable" -> FileHolding(data)
      [] dsk = "denied" -> file
      [] dsk = "full" -> Corrupt

(***************************************************************************)
(* InventoryManager.                                                       *)
(***************************************************************************)
get_quantity(inv, ingredient_id) ==
    IF ingredient_id \in DOMAIN inv THEN inv[ingredient_id] ELSE 0

\* DataManager.update_inventory, the assignment
update_inventory(inv, ingredient_id, quantity) ==
    [k \in DOMAIN inv \cup {ingredient_id} |->
        IF k = ingredient_id THEN quantity ELSE inv[k]]

\* add_quantity without the clamp at zero
add_quantity_unclamped(inv, ingredient_id, amount) ==
    update_inventory(inv, ingredient_id,
                     get_quantity(inv, ingredient_id) + amount)

\* the new quantity add_quantity stores
add_quantity(inv, ingredient_id, amount) ==
    update_inventory(inv, ingredient_id,
                     max(0, get_quantity(inv, ingredient_id) + amount))

\* check_availability that only asks for some stock
check_availability_in_stock(inv, ingredient_id, required_amount) ==
    get_quantity(inv, ingredient_id) > 0

check_availability(inv, ingredient_id, required_amount) ==
    get_quantity(inv, ingredient_id) >= required_amount

\* IngredientManager.get_ingredient_by_id finds an ingredient (else None)
has_ingredient(ings, ingredient_id) == ingredient_id \in DOMAIN ings

\* check_multiple_availability that stops at the first shortage
RECURSIVE missing_items_first_only(_, _, _)
missing_items_first_only(inv, ings, requirements) ==
    IF requirements = <<>> THEN <<>>
    ELSE LET ing_id == requirements[1][1]
             required == requirements[1][2]
         IN IF ~check_availability(inv, ing_id, required)
            THEN <<[id |-> ing_id,
                    name |-> IF has_ingredient(ings, ing_id)
                             THEN ings[ing_id].name ELSE ing_id,
                    required |-> required,
                    available |-> get_quantity(inv, ing_id)]>>
            ELSE missing_items_first_only(inv, ings, Tail(requirements))

RECURSIVE missing_items(_, _, _)
missing_items(inv, ings, requirements) ==
    IF requirements = <<>> THEN <<>>
    ELSE LET ing_id == requirements[1][1]
             required == requirements[1][2]
             rest == missing_items(inv, ings, Tail(requirements))
         IN IF ~check_availability(inv, ing_id, required)
            THEN <<[id |-> ing_id,
                    name |-> IF has_ingredient(ings, ing_id)
                             THEN ings[ing_id].name ELSE ing_id,
                    required |-> required,
                    available |-> get_quantity(inv, ing_id)]>> \o rest
            ELSE rest

check_multiple_availability(inv, ings, requirements) ==
    LET missing == missing_items(inv, ings, requirements)
    IN [ok |-> Len(missing) = 0, missing |-> missing]

\* the loop of consume_ingredients that stops after its first entry
consume_loop_first_only(run, dsk, requirements) ==
    IF requirements = <<>> THEN run
    ELSE LET inv == add_quantity(run.inventory, requirements[1][1],
                                 -requirements[1][2])
         IN [inventory |-> inv,
             file |-> save_to_local(run.file, dsk,
                        save_data(ingredients, hotdogs, inv,
                                  sales_history))]

\* The loop of consume_ingredients over requirements: one add_quantity, with
\* its save, per entry.  A run is [inventory, file].
RECURSIVE consume_loop(_, _, _)
consume_loop(run, dsk, requirements) ==
    IF requirements = <<>> THEN run
    ELSE LET inv == add_quantity(run.inventory, requirements[1][1],
                                 -requirements[1][2])
         IN consume_loop(
              [inventory |-> inv,
               file |-> save_to_local(run.file, dsk,
                          save_data(ingredients, hotdogs, inv,
                                    sales_history))],
              dsk, Tail(requirements))

\* consume_ingredients without the availability check in front of the loop
consume_ingredients_unchecked(inv, ings, file, dsk, requirements) ==
    LET run == consume_loop([inventory |-> inv, file |-> file], dsk,
                            requirements)
    IN [ret |-> TRUE, inventory |-> run.inventory, file |-> run.file]

\* consume_ingredients: [ret, inventory, file] after the call
consume_ingredients(inv, ings, file, dsk, requirements) ==
    IF ~check_multiple_availability(inv, ings, requirements).ok
    THEN [ret |-> FALSE, inventory |-> inv, file |-> file]
    ELSE LET run == consume_loop([inventory |-> inv, file |-> file], dsk,
                                 requirements)
         IN [ret |-> TRUE, inventory |-> run.inventory, file |-> run.file]

(***************************************************************************)
(* The state after construction when no operation is running.              *)
(***************************************************************************)
SimIdle ==
    /\ pc = "idle"
    /\ num_clients = 0
    /\ client_num = 0
    /\ order = <<>>
    /\ clients_changed_opinion = 0
    /\ clients_could_not_buy = 0
    /\ clients_served = 0
    /\ total_hotdogs_sold = 0
    /\ hotdog_sales_counter = <<>>
    /\ hotdogs_causing_loss = <<>>
    /\ ingredients_causing_loss = <<>>
    /\ total_sides_sold = 0

NoCall ==
    /\ op = "none"
    /\ args = None
    /\ ret = None

\* no second run is followed
NoTwin == [pc |-> "none"]

(***************************************************************************)
(* The inventory ledger on its own: InventoryManager's operations called   *)
(* with arguments drawn from bounded sets.                                 *)
(***************************************************************************)
\* "b1" is an ingredient with a stock; "x1" is no ingredient and starts
\* without an entry in the ledger
LedgerIds == {"b1", "x1"}

Amounts == (0 - MaxQty) .. MaxQty

RequiredCounts == 0 .. MaxQty

\* the requirements maps of at most n entries
RECURSIVE RequirementMaps(_)
RequirementMaps(n) ==
    IF n = 0 THEN {<<>>}
    ELSE LET shorter == RequirementMaps(n - 1)
         IN shorter \cup
            {Append(r, <<id, c>>) :
               r \in {q \in shorter : Len(q) = n - 1},
               id \in LedgerIds, c \in RequiredCounts}

Requirements ==
    {r \in RequirementMaps(MaxReqLen) :
        \A i, j \in DOMAIN r : i # j => r[i][1] # r[j][1]}

\* the cap of the quantities the model follows
InQtyRange(inv) == \A k \in DOMAIN inv : inv[k] <= MaxQty

LedgerInit ==
    /\ ingredients = Restrict(AllIngredients, {"b1"})
    /\ hotdogs = Restrict(AllHotDogs, {})
    /\ inventory \in [{"b1"} -> 0 .. MaxQty]
    /\ sales_history = <<>>
    /\ local_file = NoFile
    /\ disk \in DiskConditions
    /\ SimIdle
    /\ NoCall
    /\ twin = NoTwin

\* InventoryManager.update_quantity -> DataManager.update_inventory
UpdateQuantity(ingredient_id, quantity) ==
    /\ pc = "idle"
    /\ inventory' = update_inventory(inventory, ingredient_id, quantity)
    /\ local_file' = save_to_local(local_file, disk,
                         save_data(ingredients, hotdogs, inventory',
                                   sales_history))
    /\ op' = "update_quantity"
    /\ args' = [ingredient_id |-> ingredient_id, quantity |-> quantity]
    /\ ret' = None
    /\ UNCHANGED <<ingredients, hotdogs, sales_history, disk, simVars>>

\* InventoryManager.add_quantity
AddQuantity(ingredient_id, amount) ==
    /\ pc = "idle"
    /\ inventory' = add_quantity(inventory, ingredient_id, amount)
    /\ InQtyRange(inventory')
    /\ local_file' = save_to_local(local_file, disk,
                         save_data(ingredients, hotdogs, inventory',
                                   sales_history))
    /\ op' = "add_quantity"
    /\ args' = [ingredient_id |-> ingredient_id, amount |-> amount]
    /\ ret' = None
    /\ UNCHANGED <<ingredients, hotdogs, sales_history, disk, simVars>>

\* check_multiple_availability that takes what it finds available
CheckMultipleAvailability_taking(requirements) ==
    /\ pc = "idle"
    /\ op' = "check_multiple_availability"
    /\ args' = [requirements |-> requirements]
    /\ ret' = check_multiple_availability(inventory, ingredients, requirements)
    /\ inventory' = IF requirements # <<>> /\ ret'.ok
                    THEN add_quantity(inventory, requirements[1][1],
                                      -requirements[1][2])
                    ELSE inventory
    /\ UNCHANGED <<ingredients, hotdogs, sales_history, fileVars, simVars>>

\* InventoryManager.check_multiple_availability
CheckMultipleAvailability(requirements) ==
    /\ pc = "idle"
    /\ op' = "check_multiple_availability"
    /\ args' = [requirements |-> requirements]
    /\ ret' = check_multiple_availability(inventory, ingredients, requirements)
    /\ UNCHANGED <<dataVars, fileVars, simVars>>

\* InventoryManager.consume_ingredients
ConsumeIngredients(requirements) ==
    /\ pc = "idle"
    /\ LET r == consume_ingredients(inventory, ingredients, local_file,
                                    disk, requirements)
       IN /\ inventory' = r.inventory
          /\ local_file' = r.file
          /\ ret' = r.ret
    /\ InQtyRange(inventory')
    /\ op' = "consume_ingredients"
    /\ args' = [requirements |-> requirements]
    /\ UNCHANGED <<ingredients, hotdogs, sales_history, disk, simVars>>

LedgerNext ==
    \/ \E id \in LedgerIds, q \in 0 .. MaxQty :
          UpdateQuantity(id, q) /\ UNCHANGED twin
    \/ \E id \in LedgerIds, a \in Amounts :
          AddQuantity(id, a) /\ UNCHANGED twin
    \/ \E r \in Requirements :
          CheckMultipleAvailability(r) /\ UNCHANGED twin
    \/ \E r \in Requirements :
          ConsumeIngredients(r) /\ UNCHANGED twin

LedgerSpec == LedgerInit /\ [][LedgerNext]_vars

(***************************************************************************)
(* SalesSimulation.simulate_day.                                           *)
(***************************************************************************)
\* HotDog.get_all_ingredient_ids
get_all_ingredient_ids(hd) ==
    <<hd.pan_id, hd.salchicha_id>> \o hd.topping_ids \o hd.salsa_ids \o
    (IF Truthy(hd.acompanante_id) THEN <<hd.acompanante_id>> ELSE <<>>)

\* the loop over the ids of a hot dog that counts an id once per hot dog
RECURSIVE add_ingredients_once_per_item(_, _)
add_ingredients_once_per_item(requirements, ids) ==
    IF ids = <<>> THEN requirements
    ELSE add_ingredients_once_per_item(
           IF \E i \in DOMAIN Tail(ids) : Tail(ids)[i] = Head(ids)
           THEN requirements
           ELSE CounterAdd(requirements, Head(ids), 1), Tail(ids))

\* for ing_id in ids: order_requirements[ing_id] += 1
RECURSIVE add_ingredients(_, _)
add_ingredients(requirements, ids) ==
    IF ids = <<>> THEN requirements
    ELSE add_ingredients(CounterAdd(requirements, Head(ids), 1), Tail(ids))

\* the ingredients of category 'Acompanante' (the sides)
sides(ings) == {id \in DOMAIN ings : ings[id].category = Acompanante}

\* One draw of the loop that builds an order: the hot dog of random.choice
\* and the extra side (None when random.random() >= 0.3 or there is no side).
Picks(hds, ings) == (DOMAIN hds) \X ({None} \cup sides(ings))

\* the hot dogs of an order
order_of(hds, picks) == [i \in DOMAIN picks |-> hds[picks[i][1]]]

\* the Counter order_requirements after the draws picks
RECURSIVE add_picks(_, _, _)
add_picks(requirements, hds, picks) ==
    IF picks = <<>> THEN requirements
    ELSE LET with_hotdog ==
                 add_ingredients(requirements,
                                 get_all_ingredient_ids(hds[Head(picks)[1]]))
         IN add_picks(IF Head(picks)[2] # None
                      THEN CounterAdd(with_hotdog, Head(picks)[2], 1)
                      ELSE with_hotdog,
                      hds, Tail(picks))

requirements_of(hds, picks) == add_picks(<<>>, hds, picks)

\* hotdog_sales_counter[hd.name] = 1 in place of += 1
RECURSIVE count_sales_assigning(_, _)
count_sales_assigning(counter, ord) ==
    IF ord = <<>> THEN counter
    ELSE count_sales_assigning(
           IF Head(ord).name \in DictKeys(counter) THEN counter
           ELSE Append(counter, <<Head(ord).name, 1>>), Tail(ord))

\* for hd in order: hotdog_sales_counter[hd.name] += 1
RECURSIVE count_sales(_, _)
count_sales(counter, ord) ==
    IF ord = <<>> THEN counter
    ELSE count_sales(CounterAdd(counter, Head(ord).name, 1), Tail(ord))

\* the sides that come with the hot dogs of an order
combo_sides_total(ord) ==
    Cardinality({i \in DOMAIN ord : Truthy(ord[i].acompanante_id)})

\* the extra sides counted without taking off the sides the hot dogs bring
RECURSIVE extra_sides_total_with_combos(_, _, _)
extra_sides_total_with_combos(ings, ord, requirements) ==
    IF requirements = <<>> THEN 0
    ELSE LET ing_id == requirements[1][1]
             count == requirements[1][2]
             rest == extra_sides_total_with_combos(ings, ord,
                                                   Tail(requirements))
         IN IF has_ingredient(ings, ing_id)
               /\ ings[ing_id].category = Acompanante
            THEN count + rest
            ELSE rest

\* the extra sides of an order: per side of the requirements, its count
\* minus the hot dogs of the order that bundle that side
RECURSIVE extra_sides_total(_, _, _)
extra_sides_total(ings, ord, requirements) ==
    IF requirements = <<>> THEN 0
    ELSE LET ing_id == requirements[1][1]
             count == requirements[1][2]
             combo_sides ==
                 Cardinality({i \in DOMAIN ord :
                                ord[i].acompanante_id = ing_id})
             rest == extra_sides_total(ings, ord, Tail(requirements))
         IN IF has_ingredient(ings, ing_id)
               /\ ings[ing_id].category = Acompanante
            THEN (count - combo_sides) + rest
            ELSE rest

\* the loop over the shortages left after its first pass
add_missing_names_first_only(lst, missing) ==
    IF missing = <<>> THEN lst ELSE AppendUnique(lst, Head(missing).name)

\* ingredients_causing_loss after the shortages of one failed order
RECURSIVE add_missing_names(_, _)
add_missing_names(lst, missing) ==
    IF missing = <<>> THEN lst
    ELSE add_missing_names(AppendUnique(lst, Head(missing).name),
                           Tail(missing))

\* hotdogs_causing_loss after the hot dogs of one failed order
RECURSIVE add_hotdog_names(_, _)
add_hotdog_names(lst, ord) ==
    IF ord = <<>> THEN lst
    ELSE add_hotdog_names(AppendUnique(lst, Head(ord).name), Tail(ord))

\* the last key, in insertion order, whose count is the largest
best_seller_last_max(counter) ==
    LET i == CHOOSE i \in DOMAIN counter :
                 /\ \A j \in DOMAIN counter : counter[j][2] <= counter[i][2]
                 /\ \A j \in (i + 1) .. Len(counter) :
                       counter[j][2] < counter[i][2]
    IN counter[i][1]

\* Counter.most_common(1)[0][0]: the first key, in insertion order, whose
\* count is the largest
best_seller(counter) ==
    LET i == CHOOSE i \in DOMAIN counter :
                 /\ \A j \in DOMAIN counter : counter[j][2] <= counter[i][2]
                 /\ \A j \in 1 .. (i - 1) : counter[j][2] < counter[i][2]
    IN counter[i][1]

Menus == {{}, {"h1", "h2"}, {"h1", "h3"}}

\* the ledgers a day starts from: bread and the side are in stock or sold
\* out, sausage and topping are in stock
InitialStocks ==
    {[id \in IngredientIds |->
        IF id \in soldout THEN 0 ELSE MaxStock] : soldout \in SUBSET {"b1", "a1"}}

Init ==
    /\ ingredients = AllIngredients
    /\ hotdogs \in {Restrict(AllHotDogs, m) : m \in Menus}
    /\ inventory \in InitialStocks
    /\ sales_history = <<>>
    /\ local_file = NoFile
    /\ disk \in DiskConditions
    /\ SimIdle
    /\ NoCall
    /\ twin = NoTwin

\* simulate_day without the check of the menu
SimulateDay_unchecked_menu ==
    /\ pc = "idle"
    /\ sales_history = <<>>
    /\ op' = "simulate_day"
    /\ args' = None
    /\ \E n \in 0 .. MaxClients : num_clients' = n
    /\ pc' = "clients"
    /\ ret' = "running"
    /\ UNCHANGED <<dataVars, fileVars, client_num, order,
                   clients_changed_opinion, clients_could_not_buy,
                   clients_served, total_hotdogs_sold,
                   hotdog_sales_counter, hotdogs_causing_loss,
                   ingredients_causing_loss, total_sides_sold>>

\* simulate_day up to the loop over the clients (lines 37-59)
StartDay ==
    /\ pc = "idle"
    /\ op' = "simulate_day"
    /\ args' = None
    /\ IF DOMAIN hotdogs = {}
       THEN /\ ret' = "aborted"
            /\ UNCHANGED <<dataVars, fileVars, simVars>>
       ELSE /\ \E n \in 0 .. MaxClients : num_clients' = n
            /\ pc' = "clients"
            /\ ret' = "running"
            /\ UNCHANGED <<dataVars, fileVars, client_num, order,
                           clients_changed_opinion, clients_could_not_buy,
                           clients_served, total_hotdogs_sold,
                           hotdog_sales_counter, hotdogs_causing_loss,
                           ingredients_causing_loss, total_sides_sold>>

\* simulate_day called in a session that has no sales day yet
SimulateDay ==
    /\ sales_history = <<>>
    /\ StartDay

\* the pass with num_hotdogs = 0 without its count
ClientChangesOpinion_uncounted ==
    /\ pc = "clients"
    /\ client_num < num_clients
    /\ client_num' = client_num + 1
    /\ UNCHANGED <<dataVars, fileVars, callVars, pc, num_clients, order,
                   clients_changed_opinion,
                   clients_could_not_buy, clients_served, total_hotdogs_sold,
                   hotdog_sales_counter, hotdogs_causing_loss,
                   ingredients_causing_loss, total_sides_sold>>

\* one pass of the loop with num_hotdogs = 0 (lines 64-70)
ClientChangesOpinion ==
    /\ pc = "clients"
    /\ client_num < num_clients
    /\ client_num' = client_num + 1
    /\ clients_changed_opinion' = clients_changed_opinion + 1
    /\ UNCHANGED <<dataVars, fileVars, callVars, pc, num_clients, order,
                   clients_could_not_buy, clients_served, total_hotdogs_sold,
                   hotdog_sales_counter, hotdogs_causing_loss,
                   ingredients_causing_loss, total_sides_sold>>

\* the pass of the loop in which a shortage ends the day
ClientOrders_shortage_returns(picks) ==
    LET ord == order_of(hotdogs, picks)
        order_requirements == requirements_of(hotdogs, picks)
        checked == check_multiple_availability(inventory, ingredients,
                                               order_requirements)
    IN /\ pc = "clients"
       /\ client_num < num_clients
       /\ client_num' = client_num + 1
       /\ order' = picks
       /\ IF checked.ok
          THEN /\ hotdog_sales_counter' =
                    count_sales(hotdog_sales_counter, ord)
               /\ total_hotdogs_sold' = total_hotdogs_sold + Len(ord)
               /\ total_sides_sold' =
                    total_sides_sold + combo_sides_total(ord)
                      + extra_sides_total(ingredients, ord,
                                          order_requirements)
               /\ LET r == consume_ingredients(inventory, ingredients,
                               local_file, disk, order_requirements)
                  IN /\ inventory' = r.inventory
                     /\ local_file' = r.file
                     /\ disk' = disk
               /\ clients_served' = clients_served + 1
               /\ UNCHANGED <<clients_could_not_buy, hotdogs_causing_loss,
                              ingredients_causing_loss>>
          ELSE /\ ingredients_causing_loss' =
                    add_missing_names(ingredients_causing_loss,
                                      checked.missing)
               /\ hotdogs_causing_loss' =
                    add_hotdog_names(hotdogs_causing_loss, ord)
               /\ clients_could_not_buy' = clients_could_not_buy + 1
               /\ UNCHANGED <<inventory, fileVars, clients_served,
                              total_hotdogs_sold, hotdog_sales_counter,
                              total_sides_sold>>
       /\ pc' = IF checked.ok THEN "ordered" ELSE "idle"
       /\ UNCHANGED <<ingredients, hotdogs, sales_history, callVars,
                      num_clients, clients_changed_opinion>>

\* the pass of the loop in which a lost order still takes its first ingredient
ClientOrders_shortage_takes(picks) ==
    LET ord == order_of(hotdogs, picks)
        order_requirements == requirements_of(hotdogs, picks)
        checked == check_multiple_availability(inventory, ingredients,
                                               order_requirements)
    IN /\ pc = "clients"
       /\ client_num < num_clients
       /\ client_num' = client_num + 1
       /\ order' = picks
       /\ IF checked.ok
          THEN /\ hotdog_sales_counter' =
                    count_sales(hotdog_sales_counter, ord)
               /\ total_hotdogs_sold' = total_hotdogs_sold + Len(ord)
               /\ total_sides_sold' =
                    total_sides_sold + combo_sides_total(ord)
                      + extra_sides_total(ingredients, ord,
                                          order_requirements)
               /\ LET r == consume_ingredients(inventory, ingredients,
                               local_file, disk, order_requirements)
                  IN /\ inventory' = r.inventory
                     /\ local_file' = r.file
                     /\ disk' = disk
               /\ clients_served' = clients_served + 1
               /\ UNCHANGED <<clients_could_not_buy, hotdogs_causing_loss,
                              ingredients_causing_loss>>
          ELSE /\ ingredients_causing_loss' =
                    add_missing_names(ingredients_causing_loss,
                                      checked.missing)
               /\ hotdogs_causing_loss' =
                    add_hotdog_names(hotdogs_causing_loss, ord)
               /\ clients_could_not_buy' = clients_could_not_buy + 1
               /\ inventory' = add_quantity(inventory,
                                            order_requirements[1][1],
                                            -order_requirements[1][2])
               /\ UNCHANGED <<fileVars, clients_served,
                              total_hotdogs_sold, hotdog_sales_counter,
                              total_sides_sold>>
       /\ pc' = "ordered"
       /\ UNCHANGED <<ingredients, hotdogs, sales_history, callVars,
                      num_clients, clients_changed_opinion>>

\* one pass of the loop with num_hotdogs = Len(picks) >= 1: the order is
\* built, checked and sold or lost (lines 72-142); order keeps the hot dogs
\* and extra sides of the pass
ClientOrders(picks) ==
    LET ord == order_of(hotdogs, picks)
        order_requirements == requirements_of(hotdogs, picks)
        checked == check_multiple_availability(inventory, ingredients,
                                               order_requirements)
    IN /\ pc = "clients"
       /\ client_num < num_clients
       /\ client_num' = client_num + 1
       /\ order' = picks
       /\ IF checked.ok
          THEN /\ hotdog_sales_counter' =
                    count_sales(hotdog_sales_counter, ord)
               /\ total_hotdogs_sold' = total_hotdogs_sold + Len(ord)
               /\ total_sides_sold' =
                    total_sides_sold + combo_sides_total(ord)
                      + extra_sides_total(ingredients, ord,
                                          order_requirements)
               /\ LET r == consume_ingredients(inventory, ingredients,
                               local_file, disk, order_requirements)
                  IN /\ inventory' = r.inventory
                     /\ local_file' = r.file
                     /\ disk' = disk
               /\ clients_served' = clients_served + 1
               /\ UNCHANGED <<clients_could_not_buy, hotdogs_causing_loss,
                              ingredients_causing_loss>>
          ELSE /\ ingredients_causing_loss' =
                    add_missing_names(ingredients_causing_loss,
                                      checked.missing)
               /\ hotdogs_causing_loss' =
                    add_hotdog_names(hotdogs_causing_loss, ord)
               /\ clients_could_not_buy' = clients_could_not_buy + 1
               /\ UNCHANGED <<inventory, fileVars, clients_served,
                              total_hotdogs_sold, hotdog_sales_counter,
                              total_sides_sold>>
       /\ pc' = "ordered"
       /\ UNCHANGED <<ingredients, hotdogs, sales_history, callVars,
                      num_clients, clients_changed_opinion>>

\* back at the head of the loop after a pass with an order (line 63): the
\* order of the pass is not read again
NextClient ==
    /\ pc = "ordered"
    /\ pc' = "clients"
    /\ order' = <<>>
    /\ UNCHANGED <<dataVars, fileVars, callVars, num_clients, client_num,
                   clients_changed_opinion, clients_could_not_buy,
                   clients_served, total_hotdogs_sold, hotdog_sales_counter,
                   hotdogs_causing_loss, ingredients_causing_loss,
                   total_sides_sold>>

\* the SalesDay built after the loop (lines 163-194)
sales_day(date) ==
    [date |-> date,
     clients_changed_opinion |-> clients_changed_opinion,
     clients_could_not_buy |-> clients_could_not_buy,
     total_clients |-> num_clients,
     total_hotdogs_sold |-> total_hotdogs_sold,
     best_selling_hotdog |-> IF hotdog_sales_counter # <<>>
                             THEN best_seller(hotdog_sales_counter) ELSE "",
     hotdogs_causing_loss |-> hotdogs_causing_loss,
     ingredients_causing_loss |-> ingredients_causing_loss,
     total_sides_sold |-> total_sides_sold]

\* add_sales_day that puts the new day in front
add_sales_day_in_front(history, day) == <<day>> \o history

\* DataManager.add_sales_day, the append
add_sales_day(history, day) == Append(history, day)

\* the end of simulate_day: the report, the record, add_sales_day
\* (lines 144-199)
EndOfDay ==
    /\ pc = "clients"
    /\ client_num = num_clients
    /\ \E date \in 1 .. MaxDate :
          sales_history' = add_sales_day(sales_history, sales_day(date))
    /\ local_file' = save_to_local(local_file, disk,
                         save_data(ingredients, hotdogs, inventory,
                                   sales_history'))
    /\ pc' = "idle"
    /\ num_clients' = 0
    /\ client_num' = 0
    /\ clients_changed_opinion' = 0
    /\ clients_could_not_buy' = 0
    /\ clients_served' = 0
    /\ total_hotdogs_sold' = 0
    /\ hotdog_sales_counter' = <<>>
    /\ hotdogs_causing_loss' = <<>>
    /\ ingredients_causing_loss' = <<>>
    /\ total_sides_sold' = 0
    /\ ret' = "completed"
    /\ UNCHANGED <<ingredients, hotdogs, inventory, disk, order, op, args>>

\* the orders a client can draw
Orders ==
    UNION {[1 .. n -> Picks(hotdogs, ingredients)] : n \in 1 .. MaxHotdogs}

Next ==
    \/ SimulateDay /\ UNCHANGED twin
    \/ ClientChangesOpinion /\ UNCHANGED twin
    \/ \E picks \in Orders : ClientOrders(picks) /\ UNCHANGED twin
    \/ NextClient /\ UNCHANGED twin
    \/ EndOfDay /\ UNCHANGED twin

Spec == Init /\ [][Next]_vars

\* Once started, simulate_day runs on without waiting for anything: the loop
\* and the report are straight-line code of one thread.
DayStep ==
    \/ ClientChangesOpinion /\ UNCHANGED twin
    \/ \E picks \in Orders : ClientOrders(picks) /\ UNCHANGED twin
    \/ NextClient /\ UNCHANGED twin
    \/ EndOfDay /\ UNCHANGED twin

FairSpec == Spec /\ WF_vars(DayStep)

(***************************************************************************)
(* Two runs of simulate_day side by side: the second run starts from the   *)
(* menu, ingredients and inventory of the first and receives the draws of  *)
(* the first (random.randint, random.choice, random.random); each run      *)
(* reads the clock itself (datetime.now(), simulation.py:185).             *)
(***************************************************************************)
\* the second run before simulate_day is called
twin_start(inv) ==
    [pc |-> "idle", inventory |-> inv, num_clients |-> 0, client_num |-> 0,
     clients_changed_opinion |-> 0, clients_could_not_buy |-> 0,
     clients_served |-> 0, total_hotdogs_sold |-> 0,
     hotdog_sales_counter |-> <<>>, hotdogs_causing_loss |-> <<>>,
     ingredients_causing_loss |-> <<>>, total_sides_sold |-> 0,
     sales_history |-> <<>>]

\* lines 37-59 in the second run, with n the draw of random.randint(0, 200)
twin_simulate_day(t, n) ==
    IF DOMAIN hotdogs = {} THEN t
    ELSE [t EXCEPT !.pc = "clients", !.num_clients = n]

\* lines 64-70 in the second run
twin_changes_opinion(t) ==
    [t EXCEPT !.client_num = @ + 1, !.clients_changed_opinion = @ + 1]

\* lines 72-142 in the second run, with the draws picks
twin_orders(t, picks) ==
    LET ord == order_of(hotdogs, picks)
        order_requirements == requirements_of(hotdogs, picks)
        checked == check_multiple_availability(t.inventory, ingredients,
                                               order_requirements)
    IN IF checked.ok
       THEN [t EXCEPT
               !.client_num = @ + 1,
               !.hotdog_sales_counter = count_sales(@, ord),
               !.total_hotdogs_sold = @ + Len(ord),
               !.total_sides_sold =
                   @ + combo_sides_total(ord)
                     + extra_sides_total(ingredients, ord,
                                         order_requirements),
               !.inventory =
                   consume_ingredients(@, ingredients, local_file, disk,
                                       order_requirements).inventory,
               !.clients_served = @ + 1]
       ELSE [t EXCEPT
               !.client_num = @ + 1,
               !.ingredients_causing_loss =
                   add_missing_names(@, checked.missing),
               !.hotdogs_causing_loss = add_hotdog_names(@, ord),
               !.clients_could_not_buy = @ + 1]

\* lines 144-199 in the second run, with date its reading of the clock
twin_end_of_day(t, date) ==
    [twin_start(t.inventory) EXCEPT
       !.sales_history =
           Append(t.sales_history,
             [date |-> date,
              clients_changed_opinion |-> t.clients_changed_opinion,
              clients_could_not_buy |-> t.clients_could_not_buy,
              total_clients |-> t.num_clients,
              total_hotdogs_sold |-> t.total_hotdogs_sold,
              best_selling_hotdog |->
                  IF t.hotdog_sales_counter # <<>>
                  THEN best_seller(t.hotdog_sales_counter) ELSE "",
              hotdogs_causing_loss |-> t.hotdogs_causing_loss,
              ingredients_causing_loss |-> t.ingredients_causing_loss,
              total_sides_sold |-> t.total_sides_sold])]

TwinInit ==
    /\ ingredients = AllIngredients
    /\ hotdogs \in {Restrict(AllHotDogs, m) : m \in Menus}
    /\ inventory \in InitialStocks
    /\ sales_history = <<>>
    /\ local_file = NoFile
    /\ disk \in DiskConditions
    /\ SimIdle
    /\ NoCall
    /\ twin = twin_start(inventory)

TwinNext ==
    \/ SimulateDay /\ twin' = twin_simulate_day(twin, num_clients')
    \/ ClientChangesOpinion /\ twin' = twin_changes_opinion(twin)
    \/ \E picks \in Orders :
          ClientOrders(picks) /\ twin' = twin_orders(twin, picks)
    \/ NextClient /\ UNCHANGED twin
    \/ EndOfDay /\ \E date \in 1 .. MaxDate :
                      twin' = twin_end_of_day(twin, date)

TwinSpec == TwinInit /\ [][TwinNext]_vars

(***************************************************************************)
(* The catalog: IngredientManager.delete_ingredient and                    *)
(* MenuManager.delete_hotdog, as main.py wires them (the ingredient menu   *)
(* receives the MenuManager, main.py:98).                                  *)
(***************************************************************************)
\* get_hotdogs_using_ingredient that looks at bread and sausage only
get_hotdogs_using_ingredient_required_only(hds, ingredient_id) ==
    {h \in DOMAIN hds :
        ingredient_id \in {hds[h].pan_id, hds[h].salchicha_id}}

\* MenuManager.get_hotdogs_using_ingredient, as the set of their ids
get_hotdogs_using_ingredient(hds, ingredient_id) ==
    {h \in DOMAIN hds :
        LET ids == get_all_ingredient_ids(hds[h])
        IN \E i \in DOMAIN ids : ids[i] = ingredient_id}

\* DataManager.remove_hotdog, for each hot dog of ids
remove_hotdogs(hds, ids) == Restrict(hds, DOMAIN hds \ ids)

\* DataManager.remove_ingredient, the two del statements
remove_ingredient(d, ingredient_id) == Restrict(d, DOMAIN d \ {ingredient_id})

\* {ing_id: 1 for ing_id in ids}
RECURSIVE each_once(_, _)
each_once(requirements, ids) ==
    IF ids = <<>> THEN requirements
    ELSE each_once(IF Head(ids) \in DictKeys(requirements) THEN requirements
                   ELSE Append(requirements, <<Head(ids), 1>>), Tail(ids))

CatalogInit ==
    /\ ingredients = AllIngredients
    /\ hotdogs \in {Restrict(AllHotDogs, m) : m \in SUBSET HotDogIds}
    /\ inventory \in InitialStocks
    /\ sales_history = <<>>
    /\ local_file = NoFile
    /\ disk \in DiskConditions
    /\ SimIdle
    /\ NoCall
    /\ twin = NoTwin

\* delete_ingredient: choice is the ingredient picked from the list (None
\* for Cancel), proceed the answer to "Do you want to proceed?".  ret is
\* what the operation did and the hot dogs it reports as deleted.
DeleteIngredient(choice, proceed) ==
    LET affected == IF choice = None THEN {}
                    ELSE get_hotdogs_using_ingredient(hotdogs, choice)
    IN /\ pc = "idle"
       /\ op' = "delete_ingredient"
       /\ args' = [ingredient_id |-> choice, proceed |-> proceed]
       /\ IF DOMAIN ingredients = {}
          THEN /\ ret' = [status |-> "nothing", hotdogs |-> {}]
               /\ UNCHANGED <<dataVars, fileVars>>
          ELSE IF choice = None \/ (affected # {} /\ ~proceed)
          THEN /\ ret' = [status |-> "cancelled", hotdogs |-> {}]
               /\ UNCHANGED <<dataVars, fileVars>>
          ELSE /\ hotdogs' = remove_hotdogs(hotdogs, affected)
               /\ ingredients' = remove_ingredient(ingredients, choice)
               /\ inventory' = remove_ingredient(inventory, choice)
               /\ local_file' = save_to_local(local_file, disk,
                                    save_data(ingredients', hotdogs',
                                              inventory', sales_history))
               /\ ret' = [status |-> "deleted", hotdogs |-> affected]
               /\ UNCHANGED <<sales_history, disk>>
       /\ UNCHANGED <<simVars, twin>>

\* delete_hotdog: choice is the hot dog picked from the list (None for
\* Cancel), sure the answer to "Are you sure you want to delete it?"
DeleteHotdog(choice, sure) ==
    /\ pc = "idle"
    /\ op' = "delete_hotdog"
    /\ args' = [hotdog_id |-> choice, sure |-> sure]
    /\ IF DOMAIN hotdogs = {}
       THEN /\ ret' = [status |-> "nothing", hotdogs |-> {}]
            /\ UNCHANGED <<dataVars, fileVars>>
       ELSE IF \/ choice = None
               \/ /\ ~sure
                  /\ check_multiple_availability(
                        inventory, ingredients,
                        each_once(<<>>,
                          get_all_ingredient_ids(hotdogs[choice]))).ok
       THEN /\ ret' = [status |-> "cancelled", hotdogs |-> {}]
            /\ UNCHANGED <<dataVars, fileVars>>
       ELSE /\ hotdogs' = remove_hotdogs(hotdogs, {choice})
            /\ local_file' = save_to_local(local_file, disk,
                                 save_data(ingredients, hotdogs', inventory,
                                           sales_history))
            /\ ret' = [status |-> "deleted", hotdogs |-> {choice}]
            /\ UNCHANGED <<ingredients, inventory, sales_history, disk>>
    /\ UNCHANGED <<simVars, twin>>

CatalogNext ==
    \/ \E choice \in DOMAIN ingredients \cup {None}, proceed \in BOOLEAN :
          DeleteIngredient(choice, proceed)
    \/ \E choice \in DOMAIN hotdogs \cup {None}, sure \in BOOLEAN :
          DeleteHotdog(choice, sure)

CatalogSpec == CatalogInit /\ [][CatalogNext]_vars

(***************************************************************************)
(* DataManager.load_all_data at start-up: the remote source, then the      *)
(* local file, merged into the empty store.                                *)
(***************************************************************************)
\* the quantity _merge_api_data gives an ingredient without one
DefaultQuantity == 50

\* dict.update: the entries of b replace and extend those of a
dict_update(a, b) ==
    [k \in DOMAIN a \cup DOMAIN b |-> IF k \in DOMAIN b THEN b[k] ELSE a[k]]

\* dict.setdefault for every entry of b: the entries of a stay
dict_setdefault(a, b) ==
    [k \in DOMAIN a \cup DOMAIN b |-> IF k \in DOMAIN a THEN a[k] ELSE b[k]]

\* _merge_api_data: the store after one file of the remote source
merge_api_data(data, file_data) ==
    LET with_defaults ==
            dict_setdefault(data.inventory,
                            [k \in DOMAIN file_data.ingredients |->
                                DefaultQuantity])
    IN [ingredients |-> dict_update(data.ingredients, file_data.ingredients),
        hotdogs |-> dict_update(data.hotdogs, file_data.hotdogs),
        inventory |-> dict_update(with_defaults, file_data.inventory),
        sales_history |-> data.sales_history]

\* the loop of _load_from_github over the JSON files of the listing: a file
\* is merged, or answers with a status other than 200 and is skipped, or its
\* request or its parsing raises, which ends the load with False
RECURSIVE load_files(_, _)
load_files(data, files) ==
    IF files = <<>> THEN [ok |-> TRUE, data |-> data]
    ELSE CASE Head(files).fetch = "ok" ->
                load_files(merge_api_data(data, Head(files).data),
                           Tail(files))
           [] Head(files).fetch = "status" -> load_files(data, Tail(files))
           [] Head(files).fetch = "raises" -> [ok |-> FALSE, data |-> data]

\* _load_from_github: [ok, data]; the listing answers 200 with its files,
\* answers another status, or raises
load_from_github(data, remote) ==
    IF remote.listing # "ok" \/ remote.files = <<>>
    THEN [ok |-> FALSE, data |-> data]
    ELSE load_files(data, remote.files)

\* _load_from_local whose inventory does not replace what is loaded already
load_from_local_keeping_remote(data, file) ==
    IF file.state # "json" THEN [ok |-> FALSE, data |-> data]
    ELSE [ok |-> TRUE,
          data |->
            [ingredients |-> dict_update(data.ingredients,
                                         file.data.ingredients),
             hotdogs |-> dict_update(data.hotdogs, file.data.hotdogs),
             inventory |-> dict_setdefault(data.inventory,
                                           file.data.inventory),
             sales_history |-> file.data.sales_history]]

\* _load_from_local: [ok, data]; the file is absent, or json.load raises
\* before anything is merged, or the document is merged
load_from_local(data, file) ==
    IF file.state # "json" THEN [ok |-> FALSE, data |-> data]
    ELSE [ok |-> TRUE,
          data |->
            [ingredients |-> dict_update(data.ingredients,
                                         file.data.ingredients),
             hotdogs |-> dict_update(data.hotdogs, file.data.hotdogs),
             inventory |-> dict_update(data.inventory, file.data.inventory),
             sales_history |-> file.data.sales_history]]

\* what one JSON file of the remote source can hold
RemoteDatas ==
    {[ingredients |-> Restrict(AllIngredients, I),
      hotdogs |-> Restrict(AllHotDogs, H),
      inventory |-> inv] :
        I \in {{}, {"b1", "s1"}}, H \in {{}, {"h1"}},
        inv \in {[k \in {} |-> 0], [k \in {"b1"} |-> MaxStock]}}

\* one JSON file of the listing and how its download goes
RemoteFiles ==
    {[fetch |-> "ok", data |-> d] : d \in RemoteDatas}
      \cup {[fetch |-> f,
             data |-> [ingredients |-> Restrict(AllIngredients, {}),
                       hotdogs |-> Restrict(AllHotDogs, {}),
                       inventory |-> [k \in {} |-> 0]]] :
               f \in {"status", "raises"}}

\* the remote source at start-up
Remotes ==
    {[listing |-> l, files |-> <<>>] : l \in {"status", "raises"}}
      \cup UNION {{[listing |-> "ok", files |-> fs] :
                     fs \in [1 .. n -> RemoteFiles]} :
                    n \in 0 .. MaxRemoteFiles}

\* a day of an earlier session
EarlierDay ==
    [date |-> 0, clients_changed_opinion |-> 1, clients_could_not_buy |-> 0,
     total_clients |-> 1, total_hotdogs_sold |-> 0,
     best_selling_hotdog |-> "", hotdogs_causing_loss |-> <<>>,
     ingredients_causing_loss |-> <<>>, total_sides_sold |-> 0]

\* the local file at start-up: absent, not parseable, or what an earlier
\* session saved
LocalFiles ==
    {NoFile, Corrupt}
      \cup {FileHolding(save_data(Restrict(AllIngredients, I),
                                  Restrict(AllHotDogs, {}),
                                  [k \in I |-> q], hist)) :
              I \in {{"b1"}, {"b1", "t1"}}, q \in {0, MaxStock},
              hist \in {<<>>, <<EarlierDay>>}}

LoadInit ==
    /\ ingredients = EmptyData.ingredients
    /\ hotdogs = EmptyData.hotdogs
    /\ inventory = EmptyData.inventory
    /\ sales_history = EmptyData.sales_history
    /\ local_file \in LocalFiles
    /\ disk \in DiskConditions
    /\ SimIdle
    /\ NoCall
    /\ twin = NoTwin

\* load_all_data, called once, on the store as constructed
LoadAllData(remote) ==
    LET api == load_from_github(
                  save_data(ingredients, hotdogs, inventory, sales_history),
                  remote)
        local == load_from_local(api.data, local_file)
    IN /\ pc = "idle"
       /\ op = "none"
       /\ op' = "load_all_data"
       /\ args' = [remote |-> remote]
       /\ ingredients' = local.data.ingredients
       /\ hotdogs' = local.data.hotdogs
       /\ inventory' = local.data.inventory
       /\ sales_history' = local.data.sales_history
       /\ ret' = [api_success |-> api.ok, local_success |-> local.ok,
                  ok |-> (api.ok \/ local.ok)]
       /\ UNCHANGED <<fileVars, simVars, twin>>

LoadNext == \E remote \in Remotes : LoadAllData(remote)

LoadSpec == LoadInit /\ [][LoadNext]_vars

(***************************************************************************)
(* The main menu and the statistics (main.py, statistics.py).              *)
(***************************************************************************)
\* the number of sales days the statistics need
MinSalesDays == 2

\* can_show_statistics that is content with one day
can_show_statistics_one_day(history) == Len(history) >= 1

\* StatisticsManager.can_show_statistics
can_show_statistics(history) == Len(history) >= MinSalesDays

\* the views of show_statistics, by the choice that enters them
StatisticsViews ==
    <<"clients_overview", "sales_overview", "best_sellers",
      "inventory_issues", "all_graphs">>

\* days of earlier sessions
EarlierDays == {EarlierDay, [EarlierDay EXCEPT !.date = 1, !.total_clients = 2,
                                               !.clients_changed_opinion = 2]}

MenuInit ==
    /\ ingredients = AllIngredients
    /\ hotdogs = Restrict(AllHotDogs, {"h1", "h2"})
    /\ inventory \in InitialStocks
    /\ sales_history \in UNION {[1 .. n -> EarlierDays] : n \in 0 .. MaxDays}
    /\ local_file = NoFile
    /\ disk \in DiskConditions
    /\ SimIdle
    /\ NoCall
    /\ twin = NoTwin

\* show_main_menu up to the prompt: what line 5 of the menu offers
ShowMainMenu ==
    /\ pc = "idle"
    /\ op' = "show_main_menu"
    /\ args' = None
    /\ ret' = IF can_show_statistics(sales_history)
              THEN [available |-> TRUE, more |-> 0]
              ELSE [available |-> FALSE, more |-> 2 - Len(sales_history)]
    /\ UNCHANGED <<dataVars, fileVars, simVars, twin>>

\* choice 5 of the main menu: matplotlib says whether the import of
\* matplotlib succeeded, choice is the answer to the statistics menu
ViewStatistics(matplotlib, choice) ==
    /\ pc = "idle"
    /\ op' = "view_statistics"
    /\ args' = [matplotlib |-> matplotlib, choice |-> choice]
    /\ ret' = IF ~can_show_statistics(sales_history) THEN "refused"
              ELSE IF ~matplotlib THEN "no_matplotlib"
              ELSE IF ~can_show_statistics(sales_history) THEN "refused"
              ELSE IF choice \in DOMAIN StatisticsViews
              THEN StatisticsViews[choice]
              ELSE "back"
    /\ UNCHANGED <<dataVars, fileVars, simVars, twin>>

MenuNext ==
    \/ ShowMainMenu
    \/ \E matplotlib \in BOOLEAN, choice \in 1 .. 6 :
          ViewStatistics(matplotlib, choice)

MenuSpec == MenuInit /\ [][MenuNext]_vars

(***************************************************************************)
(* A session after start-up: the store holds the sales days of earlier     *)
(* sessions, and the operations of the main menu follow each other in any  *)
(* order (main.py:57-124).  The session is followed until its history      *)
(* holds MaxDays records; from then on only the statistics are followed.   *)
(***************************************************************************)
\* _show_clients_overview whose last series leaves the lost clients in
served_series_with_lost(history) ==
    [i \in DOMAIN history |->
        history[i].total_clients - history[i].clients_changed_opinion]

\* [sd.total_clients - sd.clients_changed_opinion - sd.clients_could_not_buy
\*  for sd in history]
RECURSIVE served_series(_)
served_series(history) ==
    IF history = <<>> THEN <<>>
    ELSE <<Head(history).total_clients
             - Head(history).clients_changed_opinion
             - Head(history).clients_could_not_buy>>
           \o served_series(Tail(history))

\* the four series _show_clients_overview plots against the dates
clients_overview(history) ==
    [dates |-> [i \in DOMAIN history |-> history[i].date],
     total_clients |-> [i \in DOMAIN history |-> history[i].total_clients],
     changed_opinion |->
         [i \in DOMAIN history |-> history[i].clients_changed_opinion],
     could_not_buy |->
         [i \in DOMAIN history |-> history[i].clients_could_not_buy],
     served |-> served_series(history)]

\* for x in names: counter[x] += 1
RECURSIVE count_names(_, _)
count_names(counter, names) ==
    IF names = <<>> THEN counter
    ELSE count_names(CounterAdd(counter, Head(names), 1), Tail(names))

\* problem_hotdogs of _show_inventory_issues
RECURSIVE problem_hotdogs(_, _)
problem_hotdogs(counter, history) ==
    IF history = <<>> THEN counter
    ELSE problem_hotdogs(
           count_names(counter, Head(history).hotdogs_causing_loss),
           Tail(history))

\* problem_ingredients of _show_inventory_issues
RECURSIVE problem_ingredients(_, _)
problem_ingredients(counter, history) ==
    IF history = <<>> THEN counter
    ELSE problem_ingredients(
           count_names(counter, Head(history).ingredients_causing_loss),
           Tail(history))

\* a day of an earlier session with a client served and a client lost
BusyDay ==
    [date |-> 0, clients_changed_opinion |-> 0, clients_could_not_buy |-> 1,
     total_clients |-> 2, total_hotdogs_sold |-> 1,
     best_selling_hotdog |-> "simple", hotdogs_causing_loss |-> <<"combo">>,
     ingredients_causing_loss |-> <<"fries">>, total_sides_sold |-> 0]

\* the histories a session starts with: the busy day is the first or the
\* second of the earlier days
SessionHistories ==
    {[i \in 1 .. (MaxDays - 1) |-> IF i = k THEN BusyDay ELSE EarlierDay] :
        k \in 1 .. 2}

\* the store after load_all_data has read the local file of the last
\* session, on a disk that can be written
SessionInit ==
    /\ ingredients = AllIngredients
    /\ hotdogs = Restrict(AllHotDogs, {"h1", "h2"})
    /\ inventory = [id \in IngredientIds |-> MaxStock]
    /\ sales_history \in SessionHistories
    /\ local_file = FileHolding(save_data(ingredients, hotdogs, inventory,
                                          sales_history))
    /\ disk = "writable"
    /\ SimIdle
    /\ NoCall
    /\ twin = NoTwin

\* simulate_day called in a session whose history is not full yet
SimulateNextDay ==
    /\ Len(sales_history) < MaxDays
    /\ StartDay

\* choice 1 of the statistics menu: _show_clients_overview, reached when
\* matplotlib is there and the history is long enough
ShowClientsOverview ==
    /\ pc = "idle"
    /\ can_show_statistics(sales_history)
    /\ op' = "clients_overview"
    /\ args' = None
    /\ ret' = clients_overview(sales_history)
    /\ UNCHANGED <<dataVars, fileVars, simVars, twin>>

\* choice 4 of the statistics menu: _show_inventory_issues
ShowInventoryIssues ==
    /\ pc = "idle"
    /\ can_show_statistics(sales_history)
    /\ op' = "inventory_issues"
    /\ args' = None
    /\ ret' = [problem_hotdogs |-> problem_hotdogs(<<>>, sales_history),
               problem_ingredients |->
                   problem_ingredients(<<>>, sales_history)]
    /\ UNCHANGED <<dataVars, fileVars, simVars, twin>>

SessionNext ==
    \/ SimulateNextDay /\ UNCHANGED twin
    \/ ClientChangesOpinion /\ UNCHANGED twin
    \/ \E picks \in Orders : ClientOrders(picks) /\ UNCHANGED twin
    \/ NextClient /\ UNCHANGED twin
    \/ EndOfDay /\ UNCHANGED twin
    \/ /\ Len(sales_history) < MaxDays
       /\ \E id \in {"b1", "a1"}, q \in {0, MaxStock} : UpdateQuantity(id, q)
       /\ UNCHANGED twin
    \/ /\ Len(sales_history) < MaxDays
       /\ \E choice \in DOMAIN ingredients \cup {None}, proceed \in BOOLEAN :
             DeleteIngredient(choice, proceed)
    \/ /\ Len(sales_history) < MaxDays
       /\ \E choice \in DOMAIN hotdogs \cup {None}, sure \in BOOLEAN :
             DeleteHotdog(choice, sure)
    \/ ShowMainMenu
    \/ ShowClientsOverview
    \/ ShowInventoryIssues

SessionSpec == SessionInit /\ [][SessionNext]_vars

(***************************************************************************)
(* Editing the catalog: IngredientManager.add_ingredient and               *)
(* MenuManager.add_hotdog, with the answers typed at their prompts.        *)
(***************************************************************************)
\* IngredientManager.CATEGORIES.  In ingredient_manager.py:21 the n with
\* tilde of the last category is written with its UTF-8 bytes encoded a
\* second time (C3 83 C2 B1), where simulation.py:90, simulation.py:116 and
\* menu_manager.py:249 have the letter itself (C3 B1): the last entry is
\* another string than Acompanante.
CATEGORIES ==
    <<"Pan", "Salchicha", "Topping", "Salsa", "AcompaA~+-ante">>

\* the ingredients of the stores that are edited; bread and sausage have a
\* length
EditIngredientIds == {"b1", "b2", "s1", "t1", "a1"}

EditIngredients ==
    [id \in EditIngredientIds |->
        CASE id = "b1" -> [name |-> "bread", category |-> "Pan",
                           length |-> "small"]
          [] id = "b2" -> [name |-> "long bread", category |-> "Pan",
                           length |-> "large"]
          [] id = "s1" -> [name |-> "sausage", category |-> "Salchicha",
                           length |-> "small"]
          [] id = "t1" -> [name |-> "onion", category |-> "Topping",
                           length |-> None]
          [] id = "a1" -> [name |-> "fries", category |-> Acompanante,
                           length |-> None]]

\* the stores an edit starts from: empty, complete, without bread, without
\* sausage
EditStores == {{}, EditIngredientIds, {"s1", "t1", "a1"}, {"b1", "b2", "t1"}}

\* the ids uuid4 gives a new ingredient and a new hot dog
NewIngredientIds == {"i1"}

NewHotDogIds == {"n1"}

\* IngredientManager.get_by_category, as the set of the ids
get_by_category(ings, category) ==
    {id \in DOMAIN ings : ings[id].category = category}

\* select_ingredient_from_category(category, allow_cancel=True): None when
\* the category has no ingredient or Cancel is chosen, else the chosen id
select_one(ings, category, choice) ==
    IF get_by_category(ings, category) = {} THEN None ELSE choice

\* select_ingredient_from_category(category, allow_cancel=False,
\* allow_multiple=True): [] when the category has no ingredient, else the
\* ingredients of the numbers typed, in the order typed
select_multiple(ings, category, selection) ==
    IF get_by_category(ings, category) = {} THEN <<>> ELSE selection

\* the selections of at most two numbers
Selections(ids) ==
    {<<>>} \cup {<<a>> : a \in ids} \cup {<<a, b>> : a \in ids, b \in ids}

\* the length validation of add_hotdog asks whether to proceed
length_mismatch(ings, pan_id, salchicha_id) ==
    /\ Truthy(ings[pan_id].length)
    /\ Truthy(ings[salchicha_id].length)
    /\ ings[pan_id].length # ings[salchicha_id].length

\* add_hotdog that goes on when the sausage selection is cancelled
add_hotdog_returns_early_bread_only(ings, pan_id, salchicha_id, proceed) ==
    pan_id = None

\* add_hotdog returns before it creates a hot dog: the bread or the sausage
\* selection gave None, or the lengths differ and the user does not proceed
add_hotdog_returns_early(ings, pan_id, salchicha_id, proceed) ==
    \/ pan_id = None
    \/ salchicha_id = None
    \/ (length_mismatch(ings, pan_id, salchicha_id) /\ ~proceed)

EditInit ==
    /\ ingredients \in {Restrict(EditIngredients, I) : I \in EditStores}
    /\ hotdogs \in {Restrict(AllHotDogs, {}),
                    IF {"b1", "s1"} \subseteq DOMAIN ingredients
                    THEN Restrict(AllHotDogs, {"h1"})
                    ELSE Restrict(AllHotDogs, {})}
    /\ inventory \in {[id \in DOMAIN ingredients |-> q] : q \in {0, MaxStock}}
    /\ sales_history = <<>>
    /\ local_file = NoFile
    /\ disk \in DiskConditions
    /\ SimIdle
    /\ NoCall
    /\ twin = NoTwin

\* IngredientManager.add_ingredient -> DataManager.add_ingredient: choice is
\* the number of the category, length the answer asked of a bread or a
\* sausage, ingredient_id the uuid
AddIngredient(ingredient_id, choice, length, initial_quantity) ==
    LET category == CATEGORIES[choice]
    IN /\ pc = "idle"
       /\ ingredient_id \notin DOMAIN ingredients
       /\ (category \notin {"Pan", "Salchicha"}) => length = None
       /\ (category \in {"Pan", "Salchicha"}) => length # None
       /\ ingredients' =
            [id \in DOMAIN ingredients \cup {ingredient_id} |->
                IF id = ingredient_id
                THEN [name |-> "new", category |-> category,
                      length |-> length]
                ELSE ingredients[id]]
       /\ inventory' = update_inventory(inventory, ingredient_id,
                                        initial_quantity)
       /\ local_file' = save_to_local(local_file, disk,
                            save_data(ingredients', hotdogs, inventory',
                                      sales_history))
       /\ op' = "add_ingredient"
       /\ args' = [choice |-> choice, length |-> length,
                   initial_quantity |-> initial_quantity]
       /\ ret' = [ingredient_id |-> ingredient_id]
       /\ UNCHANGED <<hotdogs, sales_history, disk, simVars, twin>>

\* MenuManager.add_hotdog -> DataManager.add_hotdog: pan, salchicha and side
\* are the choices of the three single selections (None for Cancel, and for
\* the side also for the answer no), proceed the answer to the length
\* warning, toppings and salsas the multiple selections, hotdog_id the uuid.
\* Answers that are not asked for are not drawn.
AddHotdog(hotdog_id, pan, salchicha, proceed, toppings, salsas, side) ==
    LET pan_id == select_one(ingredients, "Pan", pan)
        salchicha_id ==
            IF pan_id = None THEN None
            ELSE select_one(ingredients, "Salchicha", salchicha)
        asked == /\ pan_id # None
                 /\ salchicha_id # None
                 /\ length_mismatch(ingredients, pan_id, salchicha_id)
        topping_ids == select_multiple(ingredients, "Topping", toppings)
        salsa_ids == select_multiple(ingredients, "Salsa", salsas)
        acompanante_id == select_one(ingredients, Acompanante, side)
    IN /\ pc = "idle"
       /\ hotdog_id \notin DOMAIN hotdogs
       /\ pan_id = None => salchicha = None
       /\ ~asked => ~proceed
       /\ op' = "add_hotdog"
       /\ IF add_hotdog_returns_early(ingredients, pan_id, salchicha_id,
                                      proceed)
          THEN /\ toppings = <<>> /\ salsas = <<>> /\ side = None
               /\ args' = [pan |-> pan, salchicha |-> salchicha,
                           proceed |-> proceed, toppings |-> toppings,
                           salsas |-> salsas, side |-> side]
               /\ ret' = [status |-> "cancelled", hotdog_id |-> None]
               /\ UNCHANGED <<dataVars, fileVars>>
          ELSE /\ args' = [pan |-> pan, salchicha |-> salchicha,
                           proceed |-> proceed, toppings |-> toppings,
                           salsas |-> salsas, side |-> side]
               /\ hotdogs' =
                    [id \in DOMAIN hotdogs \cup {hotdog_id} |->
                        IF id = hotdog_id
                        THEN [name |-> "new", pan_id |-> pan_id,
                              salchicha_id |-> salchicha_id,
                              topping_ids |-> topping_ids,
                              salsa_ids |-> salsa_ids,
                              acompanante_id |-> acompanante_id]
                        ELSE hotdogs[id]]
               /\ local_file' = save_to_local(local_file, disk,
                                    save_data(ingredients, hotdogs',
                                              inventory, sales_history))
               /\ ret' = [status |-> "added", hotdog_id |-> hotdog_id]
               /\ UNCHANGED <<ingredients, inventory, sales_history, disk>>
       /\ UNCHANGED <<simVars, twin>>

EditNext ==
    \/ \E ingredient_id \in NewIngredientIds, choice \in DOMAIN CATEGORIES,
          length \in {None, "small", "large"},
          initial_quantity \in {0, MaxStock} :
          AddIngredient(ingredient_id, choice, length, initial_quantity)
    \/ \E hotdog_id \in NewHotDogIds,
          pan \in get_by_category(ingredients, "Pan") \cup {None},
          salchicha \in get_by_category(ingredients, "Salchicha") \cup {None},
          proceed \in BOOLEAN,
          toppings \in Selections(get_by_category(ingredients, "Topping")),
          salsas \in Selections(get_by_category(ingredients, "Salsa")),
          side \in get_by_category(ingredients, Acompanante) \cup {None} :
          AddHotdog(hotdog_id, pan, salchicha, proceed, toppings, salsas, side)

EditSpec == EditInit /\ [][EditNext]_vars

(***************************************************************************)
(* A simulated day with its account: next to simulate_day the ledger the   *)
(* day started with is kept, and per ingredient the units that the         *)
(* order_requirements of the served clients add up to.                     *)
(***************************************************************************)
\* hot dogs whose sides are out of the ordinary: h4 has the side ingredient
\* as a topping and as its side, h5 names the topping as its side
OddHotDogs ==
    [id \in {"h4", "h5"} |->
        CASE id = "h4" -> [name |-> "double", pan_id |-> "b1",
                           salchicha_id |-> "s1", topping_ids |-> <<"a1">>,
                           salsa_ids |-> <<>>, acompanante_id |-> "a1"]
          [] id = "h5" -> [name |-> "odd", pan_id |-> "b1",
                           salchicha_id |-> "s1", topping_ids |-> <<>>,
                           salsa_ids |-> <<>>, acompanante_id |-> "t1"]]

AuditMenus ==
    {Restrict(AllHotDogs, {"h1", "h2"}),
     dict_update(Restrict(AllHotDogs, {"h2"}), Restrict(OddHotDogs, {"h4"})),
     dict_update(Restrict(AllHotDogs, {"h1"}), Restrict(OddHotDogs, {"h5"}))}

\* the account at the start of a day
day_account(inv) ==
    [pc |-> "account", initial |-> inv, taken |-> [id \in DOMAIN inv |-> 0]]

\* the account after a served client with the given order_requirements
account_served(t, requirements) ==
    [t EXCEPT !.taken = [id \in DOMAIN @ |->
                           @[id] + DictGet(requirements, id, 0)]]

AuditInit ==
    /\ ingredients = AllIngredients
    /\ hotdogs \in AuditMenus
    /\ inventory \in InitialStocks
    /\ sales_history = <<>>
    /\ local_file = NoFile
    /\ disk = "writable"
    /\ SimIdle
    /\ NoCall
    /\ twin = day_account(inventory)

AuditNext ==
    \/ SimulateDay /\ twin' = day_account(inventory)
    \/ ClientChangesOpinion /\ UNCHANGED twin
    \/ \E picks \in Orders :
          /\ ClientOrders(picks)
          /\ twin' = IF clients_served' = clients_served + 1
                     THEN account_served(twin,
                                         requirements_of(hotdogs, picks))
                     ELSE twin
    \/ NextClient /\ UNCHANGED twin
    \/ EndOfDay /\ UNCHANGED twin

AuditSpec == AuditInit /\ [][AuditNext]_vars

(***************************************************************************)
(* The end of a session and the start of the next one: ingredients are     *)
(* deleted, the program is left, and load_all_data builds the store of the *)
(* next session from the remote source and the local file.                 *)
(***************************************************************************)
\* the remote source at the restart: it fails, or lists at most one file
RestartRemotes == {r \in Remotes : Len(r.files) <= 1}

RestartInit ==
    /\ ingredients = AllIngredients
    /\ hotdogs \in {Restrict(AllHotDogs, m) : m \in {{"h1"}, HotDogIds}}
    /\ inventory \in InitialStocks
    /\ sales_history \in {<<>>, <<EarlierDay>>}
    /\ local_file = FileHolding(save_data(ingredients, hotdogs, inventory,
                                          sales_history))
    /\ disk \in DiskConditions
    /\ SimIdle
    /\ NoCall
    /\ twin = NoTwin

\* The program is left, by choice 7 of the main menu, which saves before
\* sys.exit (main.py:117-122), or without it (the terminal is closed), and is
\* started again: a new DataManager, whose store is empty, runs
\* load_all_data.
Restart(remote, by_menu) ==
    LET file == IF by_menu
                THEN save_to_local(local_file, disk,
                                   save_data(ingredients, hotdogs, inventory,
                                             sales_history))
                ELSE local_file
        api == load_from_github(EmptyData, remote)
        local == load_from_local(api.data, file)
    IN /\ pc = "idle"
       /\ op # "load_all_data"
       /\ op' = "load_all_data"
       /\ args' = [remote |-> remote, by_menu |-> by_menu]
       /\ local_file' = file
       /\ ingredients' = local.data.ingredients
       /\ hotdogs' = local.data.hotdogs
       /\ inventory' = local.data.inventory
       /\ sales_history' = local.data.sales_history
       /\ ret' = [api_success |-> api.ok, local_success |-> local.ok,
                  ok |-> (api.ok \/ local.ok)]
       /\ UNCHANGED <<disk, simVars, twin>>

\* one session with its deletions, then the start of the next
RestartNext ==
    \/ /\ op # "load_all_data"
       /\ \E choice \in DOMAIN ingredients \cup {None}, proceed \in BOOLEAN :
             DeleteIngredient(choice, proceed)
    \/ \E remote \in RestartRemotes, by_menu \in BOOLEAN :
          Restart(remote, by_menu)

RestartSpec == RestartInit /\ [][RestartNext]_vars

(***************************************************************************)
(* Properties of the inventory ledger (under LedgerSpec).                  *)
(***************************************************************************)
NonNegative(inv) == \A k \in DOMAIN inv : inv[k] >= 0

\* C1: consume_ingredients either returns True and lowers the quantity of
\* every id of the map by exactly its required amount (and no other
\* quantity), or returns False and leaves every quantity as it was.
C1_ConsumeAllOrNothing ==
    [][op' = "consume_ingredients" =>
         LET req == args'.requirements
         IN \/ /\ ret' = TRUE
               /\ \A id \in LedgerIds :
                     get_quantity(inventory', id) =
                       get_quantity(inventory, id) - DictGet(req, id, 0)
            \/ /\ ret' = FALSE
               /\ \A id \in LedgerIds :
                     get_quantity(inventory', id) = get_quantity(inventory, id)
      ]_vars

\* a refused consumption whose first requirement alone could have been met
C1_Witness ==
    /\ op = "consume_ingredients"
    /\ ret = FALSE
    /\ Len(args.requirements) = 2
    /\ args.requirements[1][2] >= 1
    /\ get_quantity(inventory, args.requirements[1][1])
          >= args.requirements[1][2]
    /\ get_quantity(inventory, args.requirements[2][1])
          < args.requirements[2][2]

\* C2: add_quantity sets the quantity of the named ingredient to
\* max(0, old + amount), changes no other quantity, and from a ledger
\* without negative quantities leads to a ledger without negative quantities.
C2_AddQuantityClamps ==
    [][op' = "add_quantity" =>
         LET id == args'.ingredient_id
         IN /\ get_quantity(inventory', id) =
                 (IF get_quantity(inventory, id) + args'.amount > 0
                  THEN get_quantity(inventory, id) + args'.amount ELSE 0)
            /\ \A k \in LedgerIds \ {id} :
                 /\ (k \in DOMAIN inventory') = (k \in DOMAIN inventory)
                 /\ get_quantity(inventory', k) = get_quantity(inventory, k)
            /\ (NonNegative(inventory) => NonNegative(inventory'))
      ]_vars

\* a subtraction that ends at zero next to another ingredient in stock
C2_Witness ==
    /\ op = "add_quantity"
    /\ args.amount < 0
    /\ get_quantity(inventory, args.ingredient_id) = 0
    /\ \E k \in DOMAIN inventory \ {args.ingredient_id} : inventory[k] > 0

\* C3: check_multiple_availability returns ok exactly when every id of the
\* map has quantity >= its required count, and its list holds exactly one
\* entry per short id, with that id, the required count and the quantity.
C3_CheckReportsAllShortages ==
    op = "check_multiple_availability" =>
      LET req == args.requirements
          short == {i \in DOMAIN req :
                      get_quantity(inventory, req[i][1]) < req[i][2]}
      IN /\ ret.ok = (short = {})
         /\ Len(ret.missing) = Cardinality(short)
         /\ \A i \in short :
              \E j \in DOMAIN ret.missing :
                 /\ ret.missing[j].id = req[i][1]
                 /\ ret.missing[j].required = req[i][2]
                 /\ ret.missing[j].available =
                      get_quantity(inventory, req[i][1])

\* a check that reports two shortages
C3_Witness ==
    /\ op = "check_multiple_availability"
    /\ ~ret.ok
    /\ Len(ret.missing) = 2
    /\ ret.missing[1].id # ret.missing[2].id

\* C4: check_multiple_availability changes neither the ledger nor the file,
\* and a second call with the same map right after the first returns the
\* same result.
C4_CheckIsPureRead ==
    /\ [][op' = "check_multiple_availability" =>
            inventory' = inventory /\ local_file' = local_file]_vars
    /\ [][(/\ op = "check_multiple_availability"
           /\ op' = "check_multiple_availability"
           /\ args' = args) => ret' = ret]_vars

\* a successful check of a map that asks for stock the ledger holds
C4_Witness ==
    /\ op = "check_multiple_availability"
    /\ ret.ok
    /\ \E i \in DOMAIN args.requirements :
          /\ args.requirements[i][2] >= 1
          /\ args.requirements[i][1] \in DOMAIN inventory

(***************************************************************************)
(* Properties of the simulated day (under Spec and FairSpec).              *)
(***************************************************************************)
Range(seq) == {seq[i] : i \in DOMAIN seq}

IsPrefix(a, b) == Len(a) <= Len(b) /\ SubSeq(b, 1, Len(a)) = a

\* the order picks needs more of some ingredient of one of its hot dogs
\* than the ledger holds
ShortIds(picks) ==
    LET requirements == requirements_of(hotdogs, picks)
    IN {id \in UNION {Range(get_all_ingredient_ids(hotdogs[picks[i][1]])) :
                        i \in DOMAIN picks} :
          get_quantity(inventory, id) < DictGet(requirements, id, 0)}

\* C5: while the clients of a day are resolved, served + could not buy +
\* changed opinion is the number of clients resolved so far, which at the
\* end of the day is the number of clients; every client is in one group.
C5_ClientsConserved ==
    /\ pc = "clients" =>
         /\ clients_served + clients_could_not_buy + clients_changed_opinion
              = client_num
         /\ client_num <= num_clients
    /\ \A i \in DOMAIN sales_history :
         sales_history[i].clients_changed_opinion
           + sales_history[i].clients_could_not_buy
           <= sales_history[i].total_clients

\* the end of a day with a client served and a client lost
C5_Witness ==
    /\ pc = "clients"
    /\ client_num = num_clients
    /\ clients_served >= 1
    /\ clients_could_not_buy >= 1

\* C6: total_hotdogs_sold is the sum of the per-name sale counters, and it
\* grows only in the pass of a served client, by the hot dogs of the order.
C6_SoldIsSumOfCounters ==
    /\ [](total_hotdogs_sold = CounterTotal(hotdog_sales_counter))
    /\ [][total_hotdogs_sold' > total_hotdogs_sold =>
            clients_served' = clients_served + 1]_vars
    /\ [][(pc = "clients" /\ pc' = "ordered") =>
            total_hotdogs_sold' =
              total_hotdogs_sold
                + (IF clients_served' = clients_served + 1
                   THEN Len(order') ELSE 0)]_vars

\* h1 and h3, which share the name "simple", have each been sold once
C6_Witness ==
    /\ DOMAIN hotdogs = {"h1", "h3"}
    /\ hotdog_sales_counter = <<<<"simple", 2>>>>
    /\ inventory["b1"] = MaxStock - 2
    /\ inventory["t1"] = MaxStock - 1

\* C7: simulate_day called with an empty menu returns at once: the history,
\* the ledger and the file stay as they are and no day is started.
C7_EmptyMenuAborts ==
    [][(pc = "idle" /\ DOMAIN hotdogs = {} /\ op' = "simulate_day") =>
         /\ sales_history' = sales_history
         /\ inventory' = inventory
         /\ local_file' = local_file
         /\ pc' = "idle"
         /\ ret' = "aborted"]_vars

\* simulate_day has returned from an empty menu
C7_Witness ==
    /\ op = "simulate_day"
    /\ ret = "aborted"
    /\ DOMAIN hotdogs = {}
    /\ \E id \in DOMAIN inventory : inventory[id] > 0

\* C8: with a menu that is not empty a started day always ends with
\* simulate_day completed; the history grows only at the end of the day, by
\* one record, after every client has been resolved; no pass of the loop
\* leaves the loop.
C8_DayCompletes ==
    /\ (pc \in {"clients", "ordered"}) ~> (pc = "idle" /\ ret = "completed")
    /\ [][(pc = "idle" /\ DOMAIN hotdogs # {} /\ op' = "simulate_day") =>
            pc' = "clients"]_vars
    /\ [][(pc = "clients" /\ client_num < num_clients) =>
            (pc' \in {"clients", "ordered"} /\ client_num' = client_num + 1
             /\ sales_history' = sales_history)]_vars
    /\ [][pc = "ordered" =>
            (pc' = "clients" /\ client_num' = client_num
             /\ sales_history' = sales_history)]_vars
    /\ [][(pc = "clients" /\ client_num = num_clients) =>
            (pc' = "idle" /\ Len(sales_history') = Len(sales_history) + 1
             /\ SubSeq(sales_history', 1, Len(sales_history)) = sales_history
             /\ sales_history'[Len(sales_history')].total_clients
                  = num_clients)]_vars

\* a completed day all of whose clients, at least two, could not buy
C8_Witness ==
    /\ pc = "idle"
    /\ ret = "completed"
    /\ Len(sales_history) = 1
    /\ sales_history[1].total_clients >= 2
    /\ sales_history[1].clients_could_not_buy = sales_history[1].total_clients

\* C9: the pass of a client whose order fails the availability check adds
\* one to clients_could_not_buy and leaves the ledger, the file,
\* total_hotdogs_sold, total_sides_sold, clients_served and the sale
\* counters as they were.
C9_LostOrderChangesNoStock ==
    [][\A requirements \in {requirements_of(hotdogs, order')} :
         (/\ pc = "clients"
          /\ order' # <<>>
          /\ ~check_multiple_availability(inventory, ingredients,
                                          requirements).ok) =>
         /\ inventory' = inventory
         /\ local_file' = local_file
         /\ total_hotdogs_sold' = total_hotdogs_sold
         /\ total_sides_sold' = total_sides_sold
         /\ clients_served' = clients_served
         /\ hotdog_sales_counter' = hotdog_sales_counter
         /\ clients_could_not_buy' = clients_could_not_buy + 1]_vars

\* an order was lost although bread, sausage and topping were in stock
C9_Witness ==
    /\ pc = "clients"
    /\ clients_could_not_buy = 1
    /\ clients_served = 0
    /\ hotdogs_causing_loss # <<>>
    /\ \A id \in {"b1", "s1", "t1"} : inventory[id] = MaxStock

\* C10: the pass of a client whose order holds a hot dog with an ingredient
\* of which the ledger has less than the order requires counts the client
\* in clients_could_not_buy, not in clients_served, and puts the name of
\* every such ingredient in ingredients_causing_loss, where it stays up to
\* the record of the day.
C10_ShortOrderIsLost ==
    /\ [][(pc = "clients" /\ order' # <<>>) =>
            \A short \in {ShortIds(order')} :
               short # {} =>
                 /\ clients_could_not_buy' = clients_could_not_buy + 1
                 /\ clients_served' = clients_served
                 /\ \A id \in short :
                       ingredients[id].name
                         \in Range(ingredients_causing_loss')]_vars
    /\ [][pc' # "idle" =>
            IsPrefix(ingredients_causing_loss,
                     ingredients_causing_loss')]_vars
    /\ [][(pc = "clients" /\ pc' = "idle" /\ sales_history' # sales_history) =>
            sales_history'[Len(sales_history')].ingredients_causing_loss
              = ingredients_causing_loss]_vars

\* a client was lost on a menu whose bread and side are both sold out
C10_Witness ==
    /\ pc = "clients"
    /\ inventory["b1"] = 0
    /\ inventory["a1"] = 0
    /\ clients_could_not_buy >= 1
    /\ {"bread", "fries"} \subseteq Range(ingredients_causing_loss)

\* C11: in the pass that counts a client as served, consume_ingredients
\* called on the requirements of the order returns True, and the quantity of
\* every ingredient is lowered by exactly the count the order requires of it.
C11_ServedOrderIsConsumed ==
    [][(pc = "clients" /\ clients_served' = clients_served + 1) =>
         \A requirements \in {requirements_of(hotdogs, order')} :
            /\ consume_ingredients(inventory, ingredients, local_file, disk,
                                   requirements).ret = TRUE
            /\ \A id \in DOMAIN inventory \cup DictKeys(requirements) :
                  get_quantity(inventory', id) =
                    get_quantity(inventory, id)
                      - DictGet(requirements, id, 0)]_vars

\* a client was served the combo, which takes the topping twice, together
\* with an extra side
C11_Witness ==
    /\ pc = "ordered"
    /\ clients_served = 1
    /\ order = <<<<"h2", "a1">>>>
    /\ inventory["t1"] = MaxStock - 2
    /\ inventory["a1"] = MaxStock - 2

Keys(d) == [i \in DOMAIN d |-> d[i][1]]

\* the elements of seq, each once, in the order of their first occurrence
FirstOccurrences(seq) ==
    LET keep == {i \in DOMAIN seq : \A j \in 1 .. (i - 1) : seq[j] # seq[i]}
    IN [k \in 1 .. Cardinality(keep) |->
          seq[CHOOSE i \in keep : Cardinality({j \in keep : j < i}) = k - 1]]

\* the names of the hot dogs of the order picks
NamesOf(picks) == [i \in DOMAIN picks |-> hotdogs[picks[i][1]].name]

ShortNames(requirements) ==
    LET IsShort(e) == get_quantity(inventory, e[1]) < e[2]
        short == SelectSeq(requirements, IsShort)
    IN [i \in DOMAIN short |->
          IF short[i][1] \in DOMAIN ingredients
          THEN ingredients[short[i][1]].name ELSE short[i][1]]

\* C14: ingredients_causing_loss is, each once and in the order of first
\* occurrence, the names of the shortages of the failed orders of the day, and
\* hotdogs_causing_loss the names of the hot dogs of those orders; the passes
\* without a failed order add nothing, and the record of the day holds both
\* lists as they are after the last client.
C14_LossListsFirstSeen ==
    /\ [][(pc = "clients" /\ order' # <<>>) =>
            \A picks \in {order'} :
               \A requirements \in {requirements_of(hotdogs, picks)} :
                  IF clients_could_not_buy' = clients_could_not_buy + 1
                  THEN /\ ingredients_causing_loss' =
                            FirstOccurrences(ingredients_causing_loss
                                               \o ShortNames(requirements))
                       /\ hotdogs_causing_loss' =
                            FirstOccurrences(hotdogs_causing_loss
                                               \o NamesOf(picks))
                  ELSE /\ ingredients_causing_loss' = ingredients_causing_loss
                       /\ hotdogs_causing_loss' = hotdogs_causing_loss]_vars
    /\ [][(pc = "clients" /\ pc' = "clients") =>
            /\ ingredients_causing_loss' = ingredients_causing_loss
            /\ hotdogs_causing_loss' = hotdogs_causing_loss]_vars
    /\ [][(pc = "clients" /\ pc' = "idle") =>
            LET rec == sales_history'[Len(sales_history')]
            IN /\ rec.ingredients_causing_loss = ingredients_causing_loss
               /\ rec.hotdogs_causing_loss = hotdogs_causing_loss]_vars
    /\ [](/\ FirstOccurrences(ingredients_causing_loss)
               = ingredients_causing_loss
          /\ FirstOccurrences(hotdogs_causing_loss) = hotdogs_causing_loss)

\* a day with two failed orders, the combo before the simple one, both short
\* of bread
C14_Witness ==
    /\ pc = "idle"
    /\ Len(sales_history) = 1
    /\ sales_history[1].clients_could_not_buy = 2
    /\ sales_history[1].ingredients_causing_loss = <<"bread", "fries">>
    /\ sales_history[1].hotdogs_causing_loss = <<"combo", "simple">>

\* C15: two runs of simulate_day from the same menu, ingredients and
\* inventory that receive the same draws end with the same SalesDay record,
\* date included, and the same inventory.
C15_TwinRunsAgree ==
    (pc = "idle" /\ ret = "completed") =>
       /\ twin.sales_history = sales_history
       /\ twin.inventory = inventory

\* what the two runs do agree on: every field of the record but the date,
\* and the inventory
C15_TwinRunsAgreeButDate ==
    (pc = "idle" /\ ret = "completed") =>
       /\ twin.inventory = inventory
       /\ Len(twin.sales_history) = Len(sales_history)
       /\ \A i \in DOMAIN sales_history :
             [twin.sales_history[i] EXCEPT !.date = sales_history[i].date]
               = sales_history[i]

\* C16: a delete_ingredient that removes ingredient X leaves no hot dog in
\* the menu that has X among its ingredient ids; what it removes from the
\* menu are the hot dogs that had X, and X is out of the ingredients and of
\* the ledger.
C16_DeleteIngredientCascades ==
    [][(op' = "delete_ingredient" /\ ret'.status = "deleted") =>
         LET X == args'.ingredient_id
         IN /\ X \in DOMAIN ingredients
            /\ X \notin DOMAIN ingredients'
            /\ X \notin DOMAIN inventory'
            /\ \A h \in DOMAIN hotdogs' :
                  /\ hotdogs'[h] = hotdogs[h]
                  /\ X \notin Range(get_all_ingredient_ids(hotdogs'[h]))
            /\ \A h \in DOMAIN hotdogs \ DOMAIN hotdogs' :
                  X \in Range(get_all_ingredient_ids(hotdogs[h]))
            /\ ret'.hotdogs = DOMAIN hotdogs \ DOMAIN hotdogs']_vars

\* the topping was deleted together with the two hot dogs that had it, and
\* the hot dog without topping is still in the menu
C16_Witness ==
    /\ op = "delete_ingredient"
    /\ ret.status = "deleted"
    /\ args.ingredient_id = "t1"
    /\ ret.hotdogs = {"h2", "h3"}
    /\ DOMAIN hotdogs = {"h1"}

\* C17: a requirement on an id that is neither in the ingredients nor in
\* the ledger is answered without an error: its quantity counts as 0, the
\* check leaves the ledger as it is, and the entry that reports the shortage
\* carries the name "Unknown".
C17_UnknownIdIsNamedUnknown ==
    op = "check_multiple_availability" =>
      \A i \in DOMAIN args.requirements :
         LET id == args.requirements[i][1]
             required == args.requirements[i][2]
         IN (/\ id \notin DOMAIN ingredients
             /\ id \notin DOMAIN inventory
             /\ required >= 1) =>
              /\ get_quantity(inventory, id) = 0
              /\ \E j \in DOMAIN ret.missing :
                    /\ ret.missing[j].id = id
                    /\ ret.missing[j].available = 0
                    /\ ret.missing[j].name = "Unknown"

\* the files of the remote source that load_all_data merged
MergedFiles(remote) ==
    IF remote.listing # "ok" THEN {}
    ELSE {i \in DOMAIN remote.files :
            /\ remote.files[i].fetch = "ok"
            /\ \A j \in 1 .. (i - 1) : remote.files[j].fetch # "raises"}

\* C18: after load_all_data every id with a quantity in the local file has
\* that quantity, whatever the remote source gave it, and every ingredient
\* of a merged remote file that has a quantity neither in the local file nor
\* in the inventory map of a merged remote file has quantity 50.
C18_LocalOverridesRemoteDefault ==
    op = "load_all_data" =>
      LET files == args.remote.files
          merged == MergedFiles(args.remote)
          local == IF local_file.state = "json"
                   THEN local_file.data.inventory ELSE [k \in {} |-> 0]
      IN /\ \A id \in DOMAIN local :
               id \in DOMAIN inventory /\ inventory[id] = local[id]
         /\ \A i \in merged :
               \A id \in DOMAIN files[i].data.ingredients :
                  (/\ id \notin DOMAIN local
                   /\ \A j \in merged :
                         id \notin DOMAIN files[j].data.inventory) =>
                     id \in DOMAIN inventory /\ inventory[id] = DefaultQuantity

\* the remote source gave bread and sausage, the local file holds 0 bread:
\* bread is at 0, sausage at the default
C18_Witness ==
    /\ op = "load_all_data"
    /\ ret.api_success
    /\ ret.local_success
    /\ "b1" \in DOMAIN inventory
    /\ "s1" \in DOMAIN inventory
    /\ inventory["b1"] = 0
    /\ inventory["s1"] = DefaultQuantity
    /\ local_file.data.inventory = [k \in {"b1"} |-> 0]

\* C19: after load_all_data, a source whose load reported failure has
\* contributed nothing: the store is what the load gives when that source is
\* not read at all, and it is empty when both loads failed.
C19_FailedSourceContributesNothing ==
    op = "load_all_data" =>
      LET store == save_data(ingredients, hotdogs, inventory, sales_history)
      IN /\ ~ret.api_success =>
               store = load_from_local(EmptyData, local_file).data
         /\ ~ret.local_success =>
               store = load_from_github(EmptyData, args.remote).data
         /\ (~ret.api_success /\ ~ret.local_success) => store = EmptyData

\* C20: the main menu offers the statistics exactly when the history holds
\* at least 2 records; otherwise it shows 2 minus the length of the history
\* as the days still needed (2 for no record, 1 for one), and choice 5
\* enters no statistics view.
C20_StatisticsNeedTwoDays ==
    /\ op = "show_main_menu" =>
         /\ ret.available = (Len(sales_history) >= 2)
         /\ ~ret.available =>
              /\ ret.more = 2 - Len(sales_history)
              /\ (Len(sales_history) = 0) => (ret.more = 2)
              /\ (Len(sales_history) = 1) => (ret.more = 1)
    /\ op = "view_statistics" =>
         /\ (Len(sales_history) < 2) => (ret = "refused")
         /\ (Len(sales_history) >= 2 /\ args.matplotlib
               /\ args.choice \in DOMAIN StatisticsViews) =>
              ret = StatisticsViews[args.choice]

\* choice 5 was refused with one sales day in the history
C20_Witness ==
    /\ op = "view_statistics"
    /\ ret = "refused"
    /\ Len(sales_history) = 1
    /\ args.matplotlib

\* the units of id an order asks for: one per occurrence of id among the
\* ingredient ids of its hot dogs, and one per extra side id drawn
UnitsAskedFor(picks, id) ==
    Cardinality({p \in UNION {{<<i, j>> :
                                 j \in DOMAIN get_all_ingredient_ids(
                                                 hotdogs[picks[i][1]])} :
                               i \in DOMAIN picks} :
                   get_all_ingredient_ids(hotdogs[picks[p[1]][1]])[p[2]] = id})
      + Cardinality({i \in DOMAIN picks : picks[i][2] = id})

\* C25: order_requirements holds, for every id, the units
\* all hot dogs of the order need of it, an id counted once per occurrence
\* (repeats within the toppings of one hot dog included), plus the extra
\* sides drawn; when this total exceeds the stock of some ingredient, no hot
\* dog of the order is sold and nothing is consumed, also when a hot dog of
\* the order could have been served alone.
C25_OrderIsWhole ==
    [][(pc = "clients" /\ order' # <<>>) =>
         \A picks \in {order'} :
            \A requirements \in {requirements_of(hotdogs, picks)} :
               /\ \A id \in DOMAIN ingredients :
                     DictGet(requirements, id, 0) = UnitsAskedFor(picks, id)
               /\ DictKeys(requirements) \subseteq DOMAIN ingredients
               /\ (\E id \in DOMAIN ingredients :
                      UnitsAskedFor(picks, id) > get_quantity(inventory, id))
                    => /\ inventory' = inventory
                       /\ total_hotdogs_sold' = total_hotdogs_sold
                       /\ hotdog_sales_counter' = hotdog_sales_counter
                       /\ total_sides_sold' = total_sides_sold
                       /\ clients_served' = clients_served
                       /\ clients_could_not_buy' =
                            clients_could_not_buy + 1]_vars

\* an order of two combos was lost on a full ledger: it asks for the topping
\* four times, and one combo alone could have been served
C25_Witness ==
    /\ pc = "ordered"
    /\ order = <<<<"h2", None>>, <<"h2", None>>>>
    /\ clients_could_not_buy = 1
    /\ clients_served = 0
    /\ ingredients_causing_loss = <<"onion">>
    /\ \A id \in DOMAIN inventory : inventory[id] = MaxStock
    /\ check_multiple_availability(
          inventory, ingredients,
          requirements_of(hotdogs, <<<<"h2", None>>>>)).ok

\* C23: when simulate_day has returned from a day, the local file holds the
\* history of the store, the record of the day included, also on a disk
\* whose writes fail.
C23_RecordIsPersisted ==
    (pc = "idle" /\ op = "simulate_day" /\ ret = "completed") =>
       /\ local_file.state = "json"
       /\ local_file.data.sales_history = sales_history

\* what holds of the file after a day: on a writable disk it is the store;
\* when open() is refused it is the file from before the day
C23_RecordIsPersistedIfWritable ==
    (pc = "idle" /\ op = "simulate_day" /\ ret = "completed") =>
       /\ disk = "writable" =>
             local_file = FileHolding(save_data(ingredients, hotdogs,
                                                inventory, sales_history))
       /\ disk = "denied" => local_file = NoFile
       /\ disk = "full" => local_file = Corrupt

\* C26: between the start of a day and the append of its record the local
\* file is not written.
C26_NoMidDayWrite ==
    [][(pc \in {"clients", "ordered"} /\ pc' # "idle") =>
         local_file' = local_file]_vars

\* where the file is written during a day: in the pass of a served client,
\* which leaves in it the ledger after the order with the history of before
\* the day
C26_MidDayWriteIsOfServedOrder ==
    [][(pc \in {"clients", "ordered"} /\ pc' # "idle"
          /\ local_file' # local_file) =>
         /\ clients_served' = clients_served + 1
         /\ disk # "denied"
         /\ disk = "writable" =>
               local_file' = FileHolding(save_data(ingredients, hotdogs,
                                                   inventory', sales_history))]_vars

(***************************************************************************)
(* Properties of a session (under SessionSpec).                            *)
(***************************************************************************)
\* C21: the served series of the clients overview has one element per
\* record of the history, in the order of the history, and element i is
\* total_clients - clients_changed_opinion - clients_could_not_buy of record
\* i; for the record simulate_day appends this is the number of clients the
\* day served, and it is negative for no record.
C21_ServedSeries ==
    /\ [](op = "clients_overview" =>
            /\ Len(ret.served) = Len(sales_history)
            /\ \A i \in DOMAIN sales_history :
                  ret.served[i] =
                    sales_history[i].total_clients
                      - sales_history[i].clients_changed_opinion
                      - sales_history[i].clients_could_not_buy
            /\ \A i \in DOMAIN ret.served : ret.served[i] >= 0)
    /\ [][(pc = "clients" /\ pc' = "idle") =>
            LET rec == sales_history'[Len(sales_history')]
            IN /\ rec.total_clients - rec.clients_changed_opinion
                    - rec.clients_could_not_buy = clients_served
               /\ clients_served >= 0]_vars

\* the overview of a history whose first day served one client, whose second
\* day served none and whose last day, simulated in the session, lost a
\* client and served another
C21_Witness ==
    /\ op = "clients_overview"
    /\ Len(sales_history) = MaxDays
    /\ ret.served[1] = 1
    /\ ret.served[2] = 0
    /\ ret.served[Len(ret.served)] = 1
    /\ sales_history[Len(sales_history)].clients_could_not_buy = 1

\* C22: in a session the history changes only by an append at its end: every
\* step leaves the records of the history where they are and as they are,
\* and the only step that adds a record is the end of a simulate_day that
\* has resolved every client, which adds one.
C22_HistoryAppendOnly ==
    /\ [][IsPrefix(sales_history, sales_history')]_vars
    /\ [][sales_history' # sales_history =>
            /\ pc = "clients"
            /\ client_num = num_clients
            /\ pc' = "idle"
            /\ op' = "simulate_day"
            /\ ret' = "completed"
            /\ Len(sales_history') = Len(sales_history) + 1]_vars

\* the inventory issues are viewed after the combo was taken off the menu,
\* bread was sold and the day was recorded behind the earlier days
C22_Witness ==
    /\ op = "inventory_issues"
    /\ Len(sales_history) = MaxDays
    /\ SubSeq(sales_history, 1, MaxDays - 1) \in SessionHistories
    /\ DOMAIN hotdogs = {"h1"}
    /\ inventory["b1"] < MaxStock
    /\ sales_history[MaxDays].total_hotdogs_sold >= 1

(***************************************************************************)
(* Properties of the catalog edits (under EditSpec).                       *)
(***************************************************************************)
\* C24: an add_hotdog that adds a hot dog adds one whose pan_id and
\* salchicha_id are ids of the ingredients of that moment and leaves the
\* other hot dogs as they are; an add_hotdog called when there is no bread
\* or no sausage to select, or that is cancelled, leaves the menu unchanged.
C24_NewHotdogHasBreadAndSausage ==
    /\ [][op' = "add_hotdog" =>
            IF ret'.status = "added"
            THEN /\ DOMAIN hotdogs' = DOMAIN hotdogs \cup {ret'.hotdog_id}
                 /\ ret'.hotdog_id \notin DOMAIN hotdogs
                 /\ \A h \in DOMAIN hotdogs : hotdogs'[h] = hotdogs[h]
                 /\ hotdogs'[ret'.hotdog_id].pan_id \in DOMAIN ingredients
                 /\ hotdogs'[ret'.hotdog_id].salchicha_id
                      \in DOMAIN ingredients
            ELSE hotdogs' = hotdogs]_vars
    /\ [][(/\ op' = "add_hotdog"
           /\ \/ ~\E id \in DOMAIN ingredients :
                    ingredients[id].category = "Pan"
              \/ ~\E id \in DOMAIN ingredients :
                    ingredients[id].category = "Salchicha") =>
            hotdogs' = hotdogs /\ ret'.status = "cancelled"]_vars

\* a hot dog was added with the long bread and the small sausage, after the
\* length warning, next to the hot dog that was on the menu
C24_Witness ==
    /\ op = "add_hotdog"
    /\ ret.status = "added"
    /\ args.proceed
    /\ DOMAIN hotdogs = {"h1", "n1"}
    /\ hotdogs["n1"].pan_id = "b2"
    /\ hotdogs["n1"].salchicha_id = "s1"

(***************************************************************************)
(* Properties of the account of a day (under AuditSpec).                   *)
(***************************************************************************)
\* the sum of f over the set S
RECURSIVE SumOver(_, _)
SumOver(f, S) ==
    IF S = {} THEN 0
    ELSE LET x == CHOOSE x \in S : TRUE IN f[x] + SumOver(f, S \ {x})

\* C27: no step of a simulated day raises a quantity or makes one negative;
\* through the day and at its end, for every ingredient, the quantity the
\* day started with minus the quantity now is the sum of the
\* order_requirements of the served clients; the pass of a client who
\* changes opinion or cannot buy leaves every quantity as it was.
C27_LedgerMatchesServedOrders ==
    /\ [][\A id \in DOMAIN inventory :
            /\ id \in DOMAIN inventory'
            /\ inventory'[id] <= inventory[id]
            /\ inventory'[id] >= 0]_vars
    /\ [](\A id \in DOMAIN inventory :
            twin.initial[id] - inventory[id] = twin.taken[id])
    /\ [][(pc = "clients" /\ pc' = "idle") =>
            \A id \in DOMAIN inventory' :
               twin'.initial[id] - inventory'[id] = twin'.taken[id]]_vars
    /\ [][(pc = "clients" /\ clients_served' = clients_served) =>
            inventory' = inventory]_vars

\* the day has ended after a client was served the combo and a client could
\* not buy, and bread and topping are below what the day started with
C27_Witness ==
    /\ pc = "idle"
    /\ ret = "completed"
    /\ Len(sales_history) = 1
    /\ sales_history[1].clients_could_not_buy >= 1
    /\ sales_history[1].total_hotdogs_sold >= 1
    /\ twin.taken["b1"] >= 1
    /\ twin.taken["t1"] = 2
    /\ inventory["t1"] = twin.initial["t1"] - 2

\* every hot dog of the menu that names a side names an ingredient of the
\* side category
SidesAreSides ==
    \A h \in DOMAIN hotdogs :
       Truthy(hotdogs[h].acompanante_id) =>
          /\ hotdogs[h].acompanante_id \in DOMAIN ingredients
          /\ ingredients[hotdogs[h].acompanante_id].category = Acompanante

\* C28: on a menu whose side ids are ingredients of the side category,
\* total_sides_sold is, through the day and in the record of the day, the
\* number of units of side ingredients taken from the ledger that day; and
\* for every order and every side ingredient, the count the order requires
\* is at least the number of its hot dogs that bring that side.
C28_SidesSoldAreSidesConsumed ==
    /\ [](SidesAreSides /\ pc # "idle" =>
            LET used == [id \in DOMAIN inventory |->
                            twin.initial[id] - inventory[id]]
            IN total_sides_sold = SumOver(used, sides(ingredients)))
    /\ [][(SidesAreSides /\ pc = "clients" /\ pc' = "idle") =>
            LET used == [id \in DOMAIN inventory' |->
                            twin'.initial[id] - inventory'[id]]
            IN sales_history'[Len(sales_history')].total_sides_sold
                 = SumOver(used, sides(ingredients))]_vars
    /\ [][(pc = "clients" /\ order' # <<>>) =>
            \A picks \in {order'} :
               \A requirements \in {requirements_of(hotdogs, picks)} :
                  \A id \in sides(ingredients) :
                     DictGet(requirements, id, 0) >=
                       Cardinality({i \in DOMAIN picks :
                          hotdogs[picks[i][1]].acompanante_id = id})]_vars

\* a day on the menu with the "double" sold one of it, which takes the side
\* ingredient twice, as topping and as side, and recorded two sides sold
C28_Witness ==
    /\ pc = "idle"
    /\ ret = "completed"
    /\ "h4" \in DOMAIN hotdogs
    /\ Len(sales_history) = 1
    /\ sales_history[1].total_hotdogs_sold = 1
    /\ sales_history[1].best_selling_hotdog = "double"
    /\ sales_history[1].total_sides_sold = 2
    /\ twin.initial["a1"] - inventory["a1"] = 2

\* what the precondition of C28 is needed for: without it the sides sold
\* and the side ingredients taken differ
C28_WithoutPrecondition ==
    pc # "idle" =>
       LET used == [id \in DOMAIN inventory |->
                       twin.initial[id] - inventory[id]]
       IN total_sides_sold = SumOver(used, sides(ingredients))

\* C29: an ingredient added through add_ingredient with the last category of
\* CATEGORIES, the side category, carries the category the simulation and
\* add_hotdog compare with: it is among the sides the simulation draws its
\* extra sides from and counts in total_sides_sold, and among the
\* ingredients add_hotdog offers as side.
C29_AddedSideIsASide ==
    (op = "add_ingredient" /\ args.choice = Len(CATEGORIES)) =>
       /\ ingredients[ret.ingredient_id].category = Acompanante
       /\ ret.ingredient_id \in sides(ingredients)
       /\ ret.ingredient_id \in get_by_category(ingredients, Acompanante)
       /\ select_one(ingredients, Acompanante, ret.ingredient_id)
            = ret.ingredient_id

\* what holds of the other categories: an ingredient added as bread or as
\* sausage is offered by add_hotdog under that category
C29_AddedBreadIsABread ==
    (op = "add_ingredient" /\ args.choice \in {1, 2}) =>
       ret.ingredient_id
         \in get_by_category(ingredients, <<"Pan", "Salchicha">>[args.choice])

(***************************************************************************)
(* Properties of the restart (under RestartSpec).                          *)
(***************************************************************************)
\* the local file holds the store as it is
StoreIsSaved ==
    local_file = FileHolding(save_data(ingredients, hotdogs, inventory,
                                       sales_history))

\* C30: when delete_ingredient has removed ingredient X with the hot dogs
\* that used it and the store was saved, the load_all_data of the next start
\* gives a store without X among the ingredients and in the ledger and
\* without the hot dogs deleted with it, whatever the remote source holds.
C30_DeletionSurvivesRestart ==
    [][(/\ op = "delete_ingredient"
        /\ ret.status = "deleted"
        /\ StoreIsSaved
        /\ op' = "load_all_data") =>
         /\ args.ingredient_id \notin DOMAIN ingredients'
         /\ args.ingredient_id \notin DOMAIN inventory'
         /\ ret.hotdogs \cap DOMAIN hotdogs' = {}]_vars

\* what does hold: the deletion survives the restart when no file of the
\* remote source is merged, and then the store of the next session is the
\* saved one
C30_DeletionSurvivesWithoutRemote ==
    [][(/\ op = "delete_ingredient"
        /\ ret.status = "deleted"
        /\ StoreIsSaved
        /\ op' = "load_all_data"
        /\ MergedFiles(args'.remote) = {}) =>
         /\ args.ingredient_id \notin DOMAIN ingredients'
         /\ args.ingredient_id \notin DOMAIN inventory'
         /\ ret.hotdogs \cap DOMAIN hotdogs' = {}
         /\ ingredients' = ingredients
         /\ hotdogs' = hotdogs
         /\ inventory' = inventory
         /\ sales_history' = sales_history]_vars

====
